---------------------------- MODULE Spec2Model ----------------------------
(***************************************************************************)
(* Model of app.py (Tencent stock agent backend): the TTL cache, the daily *)
(* rating memo, the refresh handler and the news aggregation pipeline.     *)
(*                                                                         *)
(* Encoding conventions                                                    *)
(*   - a Python dict is a function whose DOMAIN is the set of its keys;    *)
(*   - a Python value that may be None is a sequence of length 0 (None) or *)
(*     1 (the value), so that None never equals a value, even a falsy one; *)
(*   - a Python list is a sequence.                                        *)
(***************************************************************************)
EXTENDS Integers, Sequences, FiniteSets, TLC

VARIABLES
    now,            \* time.time(), in whole seconds
    ticks,          \* number of clock advances so far (bounds the run)
    _cache,         \* app.py:47   key -> [ts, data]
    _rating_cache,  \* app.py:51   date string -> rating dict
    day,            \* the day number datetime.now() falls on
    LLM_API_KEY,    \* app.py:32   TRUE when the key is a non-empty string
    req,            \* request task -> the handler it runs and where it stands
    epoch,          \* history: number of refresh clears so far
    prev,           \* history: the last get_rating completed since the last refresh
    op,             \* the operation that completed last, and what it returned
    setLog          \* history: key -> the last set of that key since the last clear

clockVars == <<now, ticks>>
ratingVars == <<_rating_cache, day, LLM_API_KEY, prev>>
vars == <<now, ticks, _cache, _rating_cache, day, LLM_API_KEY, req, epoch,
          prev, op, setLog>>

(***************************************************************************)
(* Program constants and bounds                                            *)
(***************************************************************************)
CACHE_TTL == 300

MaxTicks == 3

\* The clock advances by one second or by one second less than the TTL, so
\* that ages of TTL-1, TTL and TTL+1 seconds all occur.
TickSteps == {1, CACHE_TTL - 1}

None == <<>>
Some(v) == <<v>>
EmptyDict == <<>>

(***************************************************************************)
(* TTL cache, app.py:46-63                                                 *)
(***************************************************************************)
\* A variant that keeps an entry alive at an age of exactly CACHE_TTL.
_get_cache_inclusive(c, key, t) ==
    IF key \in DOMAIN c /\ t - c[key].ts <= CACHE_TTL
    THEN Some(c[key].data)
    ELSE None

\* _get_cache(key) read at time t from cache dict c.
_get_cache(c, key, t) ==
    IF key \in DOMAIN c /\ t - c[key].ts < CACHE_TTL
    THEN Some(c[key].data)
    ELSE None

\* _set_cache(key, data) at time t: the dict after the assignment.
_set_cache(c, key, data, t) ==
    [x \in (DOMAIN c) \cup {key} |->
        IF x = key THEN [ts |-> t, data |-> data] ELSE c[x]]

(***************************************************************************)
(* JSON values.  Every kind has its own field names, so two values of      *)
(* different kinds are never equal.  A float is held in tenths.            *)
(***************************************************************************)
JNull == [t |-> "null"]
JInt(n) == [t |-> "int", n |-> n]
JFloat(tenths) == [t |-> "float", n |-> tenths]
JStr(s) == [t |-> "str", s |-> s]
JArr == [t |-> "arr"]
JObj(f) == [t |-> "obj", f |-> f]

\* dict.get(key) of a Python dict held as a function: None when absent.
DictGet(d, key) == IF key \in DOMAIN d THEN Some(d[key]) ELSE None

\* d[key] = value
DictPut(d, key, value) ==
    [x \in (DOMAIN d) \cup {key} |-> IF x = key THEN value ELSE d[x]]

(***************************************************************************)
(* Dates: datetime.now().strftime("%Y-%m-%d"), app.py:724.  Day n of the   *)
(* run is the string "2026-01-0n".                                         *)
(***************************************************************************)
MaxDays == 2

DateStr(d) == "2026-01-0" \o ToString(d)

(***************************************************************************)
(* Rating labels, app.py:858.  The five labels are written in ASCII:       *)
(* strong_buy, buy, neutral, cautious, avoid.                              *)
(***************************************************************************)
valid_ratings == {"strong_buy", "buy", "neutral", "cautious", "avoid"}

\* The strings int() converts, with their values; int() raises on any other.
NumericStrings == [s \in {"85", "-3"} |-> IF s = "85" THEN 85 ELSE -3]

\* int(x) of app.py:861 for a JSON value x: Some(n), or None when it raises.
\* A float is truncated toward zero.
PyInt(x) ==
    CASE x.t = "int" -> Some(x.n)
      [] x.t = "float" ->
            Some(IF x.n >= 0 THEN x.n \div 10 ELSE -((-x.n) \div 10))
      [] x.t = "str" ->
            IF x.s \in DOMAIN NumericStrings THEN Some(NumericStrings[x.s]) ELSE None
      [] OTHER -> None

Min(a, b) == IF a < b THEN a ELSE b
Max(a, b) == IF a > b THEN a ELSE b

DefaultFactors ==
    JObj([k \in {"technical", "fundamental", "sentiment"} |-> JStr("--")])

\* The fallback of app.py:739-749 (no API key).
NoKeyFallback(date) ==
    [k \in {"date", "rating", "score", "summary", "factors"} |->
        CASE k = "date" -> JStr(date)
          [] k = "rating" -> JStr("neutral")
          [] k = "score" -> JInt(50)
          [] k = "summary" -> JStr("no api key")
          [] k = "factors" ->
                JObj([f \in {"technical", "fundamental", "sentiment"} |->
                        JStr("cannot analyse")])]

\* The fallback of app.py:877-887 (the LLM step raised).
FailureFallback(date) ==
    [k \in {"date", "rating", "score", "summary", "factors"} |->
        CASE k = "date" -> JStr(date)
          [] k = "rating" -> JStr("neutral")
          [] k = "score" -> JInt(50)
          [] k = "summary" -> JStr("rating failed")
          [] k = "factors" -> DefaultFactors]

(***************************************************************************)
(* Text of an LLM answer, as a sequence of tokens: a code fence (```), the *)
(* word json, whitespace, prose, or the text of one JSON value.            *)
(***************************************************************************)
Fence == [t |-> "fence"]
JsonTag == [t |-> "tag"]
Ws == [t |-> "ws"]
Prose == [t |-> "prose"]
JsonTok(v) == [t |-> "json", v |-> v]

RECURSIVE LStrip(_)
LStrip(text) ==
    IF text # <<>> /\ Head(text) = Ws THEN LStrip(Tail(text)) ELSE text

RECURSIVE RStrip(_)
RStrip(text) ==
    IF text # <<>> /\ text[Len(text)] = Ws
    THEN RStrip(SubSeq(text, 1, Len(text) - 1))
    ELSE text

\* str.strip()
Strip(text) == RStrip(LStrip(text))

FenceAt(text) == {i \in 1..Len(text) : text[i] = Fence}

SetMin(S) == CHOOSE x \in S : \A y \in S : x <= y
SetMax(S) == CHOOSE x \in S : \A y \in S : x >= y

\* Where group(1) of  ```(?:json)?\s*\n?(.*?)```  starts, for the opening
\* fence at index i: after the optional json word and any whitespace.
RECURSIVE SkipWs(_, _)
SkipWs(text, i) ==
    IF i <= Len(text) /\ text[i] = Ws THEN SkipWs(text, i + 1) ELSE i

GroupStart(text, i) ==
    SkipWs(text, IF i + 1 <= Len(text) /\ text[i + 1] = JsonTag THEN i + 2 ELSE i + 1)

\* A variant whose group runs to the LAST fence of the text (a greedy group).
FenceGroup_greedy(text) ==
    LET i == SetMin(FenceAt(text))
        b == GroupStart(text, i)
        closing == {j \in FenceAt(text) : j >= b}
    IN  IF FenceAt(text) = {} \/ closing = {}
        THEN None
        ELSE Some(SubSeq(text, b, SetMax(closing) - 1))

\* re.search(r"```(?:json)?\s*\n?(.*?)```", cleaned, re.DOTALL), app.py:850:
\* None when nothing matches, else group(1): the text from the first fence
\* (past the json word and whitespace) to the next fence after it.
FenceGroup(text) ==
    LET i == SetMin(FenceAt(text))
        b == GroupStart(text, i)
        closing == {j \in FenceAt(text) : j >= b}
    IN  IF FenceAt(text) = {} \/ closing = {}
        THEN None
        ELSE Some(SubSeq(text, b, SetMin(closing) - 1))

\* app.py:846-853
cleaned(result_text) ==
    Strip(IF FenceAt(result_text) # {} /\ FenceGroup(result_text) # None
          THEN FenceGroup(result_text)[1]
          ELSE result_text)

\* json.loads: Some(value) for the text of exactly one JSON value (leading
\* and trailing whitespace allowed), None when it raises.
json_loads(text) ==
    IF Len(Strip(text)) = 1 /\ Strip(text)[1].t = "json"
    THEN Some(Strip(text)[1].v)
    ELSE None

(***************************************************************************)
(* The answer of the chat-completions call of get_rating, app.py:815-843.  *)
(*   kind "exception": the POST raised (network error, timeout)            *)
(*   kind "status":    a status other than 200                             *)
(*   kind "badbody":   200 with a body whose decoding or indexing raises   *)
(*   kind "ok":        200 with message.content (empty when missing, null  *)
(*                     or "") and message.parts (None when missing, else   *)
(*                     the text of its first part that has a text)         *)
(***************************************************************************)
LLMException == [kind |-> "exception", content |-> <<>>, parts |-> None]
LLMStatus == [kind |-> "status", content |-> <<>>, parts |-> None]
LLMBadBody == [kind |-> "badbody", content |-> <<>>, parts |-> None]
LLMOk(content, parts) == [kind |-> "ok", content |-> content, parts |-> parts]

\* result_text of app.py:827-843: None when the step raises.
result_text(resp) ==
    IF resp.kind # "ok"
    THEN None
    ELSE LET content == IF resp.content = <<>> /\ resp.parts # None
                        THEN resp.parts[1]
                        ELSE resp.content
         IN  IF Strip(content) = <<>> THEN None ELSE Some(Strip(content))

\* A variant that stores no default for a missing factors key.
ValidateRating_nofactors(rating_data, today) ==
    IF rating_data.t # "obj"
    THEN None
    ELSE LET d == rating_data.f
             r == IF DictGet(d, "rating") # None
                     /\ DictGet(d, "rating")[1].t = "str"
                     /\ DictGet(d, "rating")[1].s \in valid_ratings
                  THEN d
                  ELSE DictPut(d, "rating", JStr("neutral"))
             score == IF "score" \in DOMAIN d THEN PyInt(d["score"]) ELSE Some(50)
         IN  IF score = None
             THEN None
             ELSE Some(DictPut(DictPut(r, "score", JInt(Max(0, Min(100, score[1])))),
                               "date", JStr(today)))

\* app.py:857-870 applied to the parsed value: Some(rating_data) after the
\* repairs, None when a step raises (rating_data is no dict, int() raises).
ValidateRating(rating_data, today) ==
    IF rating_data.t # "obj"
    THEN None
    ELSE LET d == rating_data.f
             r == IF DictGet(d, "rating") # None
                     /\ DictGet(d, "rating")[1].t = "str"
                     /\ DictGet(d, "rating")[1].s \in valid_ratings
                  THEN d
                  ELSE DictPut(d, "rating", JStr("neutral"))
             score == IF "score" \in DOMAIN d THEN PyInt(d["score"]) ELSE Some(50)
         IN  IF score = None
             THEN None
             ELSE LET v == DictPut(DictPut(r, "score", JInt(Max(0, Min(100, score[1])))),
                                   "date", JStr(today))
                  IN  Some(IF "factors" \in DOMAIN v
                           THEN v
                           ELSE DictPut(v, "factors", DefaultFactors))

\* The try block of app.py:801-873 from the answer on: Some(rating_data)
\* when line 872 is reached, None when the except branch is taken.
RatingFromResponse(resp, today) ==
    IF result_text(resp) = None
    THEN None
    ELSE IF json_loads(cleaned(result_text(resp)[1])) = None
         THEN None
         ELSE ValidateRating(json_loads(cleaned(result_text(resp)[1]))[1], today)

(***************************************************************************)
(* The cache component driven directly: get, set, clear and the clock.     *)
(***************************************************************************)
CacheKeys == {"stock_data", "news_data"}
CacheData == {"v1", "v2"}

NoOp == [name |-> "none"]

\* A request task that runs no handler.  `cleared` is history: the number of
\* the clear a refresh_data task performed when it started.
IdleReq == [kind |-> "idle", pc |-> "idle", today |-> "", f |-> EmptyDict,
            usedLLM |-> FALSE, cleared |-> 0]

\* The state right after the module is loaded, app.py:47-51, with no request
\* running; the set of request tasks and the key setting vary by specification.
InitState(procs, keySettings, days) ==
    /\ now = 0
    /\ ticks = 0
    /\ _cache = EmptyDict
    /\ _rating_cache = EmptyDict
    /\ day \in days
    /\ LLM_API_KEY \in keySettings
    /\ req = [p \in procs |-> IdleReq]
    /\ epoch = 0
    /\ prev = None
    /\ op = NoOp
    /\ setLog = EmptyDict

InitCache == InitState({}, {FALSE}, {1})

Tick(d) ==
    /\ ticks < MaxTicks
    /\ now' = now + d
    /\ ticks' = ticks + 1

CacheTick ==
    /\ \E d \in TickSteps : Tick(d)
    /\ op' = NoOp
    /\ UNCHANGED <<_cache, setLog, ratingVars, req, epoch>>

CacheSet(k, v) ==
    /\ _cache' = _set_cache(_cache, k, v, now)
    /\ setLog' = [x \in (DOMAIN setLog) \cup {k} |->
                    IF x = k THEN [ts |-> now, data |-> v] ELSE setLog[x]]
    /\ op' = [name |-> "set", key |-> k, ret |-> None]
    /\ UNCHANGED <<clockVars, ratingVars, req, epoch>>

CacheGet(k) ==
    /\ op' = [name |-> "get", key |-> k, ret |-> _get_cache(_cache, k, now)]
    /\ UNCHANGED <<clockVars, _cache, setLog, ratingVars, req, epoch>>

\* _cache.clear(), app.py:701
CacheClear ==
    /\ _cache' = EmptyDict
    /\ setLog' = EmptyDict
    /\ op' = [name |-> "clear", key |-> "", ret |-> None]
    /\ UNCHANGED <<clockVars, ratingVars, req, epoch>>

NextCache ==
    \/ CacheTick
    \/ \E k \in CacheKeys, v \in CacheData : CacheSet(k, v)
    \/ \E k \in CacheKeys : CacheGet(k)
    \/ CacheClear

SpecCache == InitCache /\ [][NextCache]_vars

(***************************************************************************)
(* Fetchers as tasks.  Each of fetch_stock_data, fetch_news and            *)
(* fetch_kline_data reads the cache when it starts, returns the cached     *)
(* value when that is truthy, and otherwise awaits its upstream requests,  *)
(* stores what it built and returns it.  Between the read and the store    *)
(* the task is suspended and other tasks run.  fetch_stock_data and        *)
(* fetch_kline_data send their request in the step that read the cache;    *)
(* fetch_news hands its first requests to four _search_sina tasks and      *)
(* awaits their gather (app.py:303-311), so other tasks run between its    *)
(* read of the cache and the step that sends the requests.                 *)
(*                                                                         *)
(* What a fetcher builds is held as [epoch, empty]: the number of refresh  *)
(* clears that had happened when its first upstream request was issued,    *)
(* and whether the value is an empty list (the only falsy value a fetcher  *)
(* can build: the quote is a dict that always has keys).                   *)
(***************************************************************************)
StockKey == "stock_data"
NewsKey == "news_data"

\* cache_key = f"kline_{period}_{count}", app.py:171
kline_key(period, count) == "kline_" \o period \o "_" \o ToString(count)

\* The fetches get_rating gathers, app.py:731-735
RatingFetches == {StockKey, NewsKey, kline_key("day", 30)}

\* The fetches refresh_data gathers, app.py:703-707 (fetch_kline_data()
\* takes its defaults, period "day" and count 60)
RefreshFetches == {StockKey, NewsKey, kline_key("day", 60)}

\* `if cached:` of app.py:72, 173, 292
Truthy(cached) == cached # None /\ ~cached[1].empty

NewTask == [pc |-> "start", issued |-> -1, ret |-> None]

NewTasks(keys) == [k \in keys |-> NewTask]

AllDone(f) == \A k \in DOMAIN f : f[k].pc = "done"

MaxRefresh == 1

DayTick ==
    /\ day < MaxDays
    /\ day' = day + 1
    /\ UNCHANGED <<clockVars, _cache, _rating_cache, LLM_API_KEY, req, epoch,
                   prev, op, setLog>>

MaxExpiries == 1

\* Time passes while requests are suspended or between requests: CACHE_TTL
\* seconds at a time, so that every entry stored before the step has expired
\* after it.
ClockTick ==
    /\ ticks < MaxExpiries
    /\ now' = now + CACHE_TTL
    /\ ticks' = ticks + 1
    /\ UNCHANGED <<_cache, ratingVars, req, epoch, op, setLog>>

\* The first step of a fetcher: app.py:71-73, 171-174, 291-293.  After a
\* miss fetch_news has created its search tasks and waits for them
\* (app.py:303-311); the other two have sent their request (app.py:104,
\* 186).
FetchStart(p, k) ==
    /\ req[p].pc = "gather"
    /\ k \in DOMAIN req[p].f
    /\ req[p].f[k].pc = "start"
    /\ LET cached == _get_cache(_cache, k, now)
           task == IF Truthy(cached)
                   THEN [pc |-> "done", issued |-> -1, ret |-> cached]
                   ELSE IF k = NewsKey
                   THEN [pc |-> "missed", issued |-> -1, ret |-> None]
                   ELSE [pc |-> "await", issued |-> epoch, ret |-> None]
       IN  req' = [req EXCEPT ![p].f[k] = task]
    /\ UNCHANGED <<clockVars, _cache, ratingVars, epoch, op, setLog>>

\* The search tasks of fetch_news run and send the first requests:
\* app.py:253.
FetchIssue(p, k) ==
    /\ req[p].pc = "gather"
    /\ k \in DOMAIN req[p].f
    /\ req[p].f[k].pc = "missed"
    /\ req' = [req EXCEPT ![p].f[k] =
                 [pc |-> "await", issued |-> epoch, ret |-> None]]
    /\ UNCHANGED <<clockVars, _cache, ratingVars, epoch, op, setLog>>

\* The last step of a fetcher that missed the cache: app.py:162-163,
\* 212-213, 400-401.  What it returns is the value it stored, which carries
\* the stamp of its requests.
FetchReturn(p, k, empty) ==
    /\ req[p].pc = "gather"
    /\ k \in DOMAIN req[p].f
    /\ req[p].f[k].pc = "await"
    /\ k = StockKey => ~empty
    /\ LET data == [epoch |-> req[p].f[k].issued, empty |-> empty]
       IN  /\ _cache' = _set_cache(_cache, k, data, now)
           /\ req' = [req EXCEPT ![p].f[k] =
                        [pc |-> "done", issued |-> -1, ret |-> Some(data)]]
    /\ UNCHANGED <<clockVars, ratingVars, epoch, op, setLog>>

(***************************************************************************)
(* get_rating, app.py:721-888                                              *)
(***************************************************************************)
NoResp == [kind |-> "none", content |-> <<>>, parts |-> None]

\* A variant that never finds the memo.
RatingMemoHit_never(memo, date) == FALSE

\* `today in _rating_cache`, app.py:727
RatingMemoHit(memo, date) == date \in DOMAIN memo

\* A variant that also stores the failure fallback.
RatingStore_always(memo, date, r) ==
    IF r = None
    THEN DictPut(memo, date, FailureFallback(date))
    ELSE DictPut(memo, date, r[1])

\* The memo after the try block: line 872 stores rating_data, the except
\* branch stores nothing.
RatingStore(memo, date, r) ==
    IF r = None THEN memo ELSE DictPut(memo, date, r[1])

RatingOp(date, ret, path, usedLLM, resp) ==
    [name |-> "get_rating", date |-> date, ret |-> ret, path |-> path,
     usedLLM |-> usedLLM, resp |-> resp, prev |-> prev]

\* app.py:724-735: read the date, return the memo on a hit, else start the
\* three fetchers.
RatingStart(p) ==
    /\ req[p].kind = "idle"
    /\ LET date == DateStr(day)
       IN  IF RatingMemoHit(_rating_cache, date)
           THEN /\ op' = RatingOp(date, _rating_cache[date], "hit", FALSE, NoResp)
                /\ prev' = Some([date |-> date, ret |-> _rating_cache[date],
                                 path |-> "hit"])
                /\ UNCHANGED req
           ELSE /\ req' = [req EXCEPT ![p] =
                            [kind |-> "get_rating", pc |-> "gather", today |-> date,
                             f |-> NewTasks(RatingFetches), usedLLM |-> FALSE,
                             cleared |-> 0]]
                /\ UNCHANGED <<op, prev>>
    /\ UNCHANGED <<clockVars, _cache, _rating_cache, day, LLM_API_KEY, epoch, setLog>>

\* app.py:737-823: after the gather, store and return the fixed rating when
\* no key is configured, else send the chat-completions request.
RatingJoin(p) ==
    /\ req[p].kind = "get_rating"
    /\ req[p].pc = "gather"
    /\ AllDone(req[p].f)
    /\ IF ~LLM_API_KEY
       THEN /\ _rating_cache' =
                   DictPut(_rating_cache, req[p].today, NoKeyFallback(req[p].today))
            /\ op' = RatingOp(req[p].today, NoKeyFallback(req[p].today), "nokey",
                              FALSE, NoResp)
            /\ prev' = Some([date |-> req[p].today,
                             ret |-> NoKeyFallback(req[p].today), path |-> "nokey"])
            /\ req' = [req EXCEPT ![p] = IdleReq]
       ELSE /\ req' = [req EXCEPT ![p].pc = "llm", ![p].usedLLM = TRUE]
            /\ UNCHANGED <<_rating_cache, op, prev>>
    /\ UNCHANGED <<clockVars, _cache, day, LLM_API_KEY, epoch, setLog>>

\* app.py:824-888: the answer arrives (or the call raises); the rating is
\* extracted, repaired, stored and returned, or the fallback is returned.
RatingLLMReturn(p, resp) ==
    /\ req[p].kind = "get_rating"
    /\ req[p].pc = "llm"
    /\ LET date == req[p].today
           r == RatingFromResponse(resp, date)
           ret == IF r = None THEN FailureFallback(date) ELSE r[1]
           path == IF r = None THEN "fail" ELSE "ok"
       IN  /\ _rating_cache' = RatingStore(_rating_cache, date, r)
           /\ op' = RatingOp(date, ret, path, req[p].usedLLM, resp)
           /\ prev' = Some([date |-> date, ret |-> ret, path |-> path])
    /\ req' = [req EXCEPT ![p] = IdleReq]
    /\ UNCHANGED <<clockVars, _cache, day, LLM_API_KEY, epoch, setLog>>

(***************************************************************************)
(* refresh_data, app.py:698-715                                            *)
(***************************************************************************)
\* app.py:701-707: clear both stores and start the three fetchers.  The
\* record of the last completed operation is forgotten, as at the start of
\* the other handlers.
RefreshStart(p) ==
    /\ req[p].kind = "idle"
    /\ epoch < MaxRefresh
    /\ _cache' = EmptyDict
    /\ _rating_cache' = EmptyDict
    /\ epoch' = epoch + 1
    /\ prev' = None
    /\ req' = [req EXCEPT ![p] =
                [kind |-> "refresh_data", pc |-> "gather", today |-> "",
                 f |-> NewTasks(RefreshFetches), usedLLM |-> FALSE,
                 cleared |-> epoch + 1]]
    /\ op' = NoOp
    /\ UNCHANGED <<clockVars, day, LLM_API_KEY, setLog>>

\* app.py:708-715: the gather is done; return the snapshot.
RefreshJoin(p) ==
    /\ req[p].kind = "refresh_data"
    /\ req[p].pc = "gather"
    /\ AllDone(req[p].f)
    /\ op' = [name |-> "refresh_data", epoch |-> req[p].cleared,
              ret |-> [k \in DOMAIN req[p].f |-> req[p].f[k].ret[1]]]
    /\ req' = [req EXCEPT ![p] = IdleReq]
    /\ UNCHANGED <<clockVars, _cache, ratingVars, epoch, setLog>>

(***************************************************************************)
(* Answers of the LLM used to drive get_rating.                            *)
(***************************************************************************)
\* The JSON object that has exactly the keys whose option is not None.
MkObj(opts) ==
    JObj([k \in {x \in DOMAIN opts : opts[x] # None} |-> opts[k][1]])

RatingKeys == {"rating", "score", "summary", "factors", "date"}

FullFactors ==
    JObj([k \in {"technical", "fundamental", "sentiment"} |-> JStr("text")])

RatingObj(rating, score, summary, factors, date) ==
    MkObj([k \in RatingKeys |->
            CASE k = "rating" -> rating
              [] k = "score" -> score
              [] k = "summary" -> summary
              [] k = "factors" -> factors
              [] k = "date" -> date])

\* {"rating":"buy","score":70,"summary":..,"factors":{..}}
AnswerA ==
    LLMOk(<<JsonTok(RatingObj(Some(JStr("buy")), Some(JInt(70)), Some(JStr("up")),
                              Some(FullFactors), None))>>, None)

\* The same shape with other values, inside a ```json fence.
AnswerB ==
    LLMOk(<<Fence, JsonTag, Ws,
            JsonTok(RatingObj(Some(JStr("avoid")), Some(JInt(10)), Some(JStr("down")),
                              Some(FullFactors), None)),
            Ws, Fence>>, None)

\* {"rating":"buy-buy","score":150}
AnswerRepair ==
    LLMOk(<<JsonTok(RatingObj(Some(JStr("buy-buy")), Some(JInt(150)), None, None,
                              None))>>, None)

\* {"rating":"buy","score":"high"}
AnswerBadScore ==
    LLMOk(<<JsonTok(RatingObj(Some(JStr("buy")), Some(JStr("high")), Some(JStr("up")),
                              Some(FullFactors), None))>>, None)

AnswerProse == LLMOk(<<Prose>>, None)
AnswerEmpty == LLMOk(<<>>, None)

FewAnswers ==
    {AnswerA, AnswerB, AnswerRepair, AnswerBadScore, AnswerProse, AnswerEmpty,
     LLMException, LLMStatus}

(***************************************************************************)
(* get_rating called again and again by one client, with refreshes and a   *)
(* change of date in between: no two requests are in flight together.      *)
(***************************************************************************)
InitRating == InitState({"p1"}, BOOLEAN, {1})

NextRating ==
    \/ DayTick
    \/ ClockTick
    \/ \E p \in DOMAIN req : RatingStart(p)
    \/ \E p \in DOMAIN req, k \in RatingFetches \cup RefreshFetches : FetchStart(p, k)
    \/ \E p \in DOMAIN req : FetchIssue(p, NewsKey)
    \/ \E p \in DOMAIN req, k \in RatingFetches \cup RefreshFetches :
            FetchReturn(p, k, FALSE)
    \/ \E p \in DOMAIN req : RatingJoin(p)
    \/ \E p \in DOMAIN req, resp \in FewAnswers : RatingLLMReturn(p, resp)
    \/ \E p \in DOMAIN req : RefreshStart(p)
    \/ \E p \in DOMAIN req : RefreshJoin(p)

SpecRating == InitRating /\ [][NextRating]_vars

\* What the text of an answer parses to: None when the LLM step raises
\* before json.loads returns.
ParsedAnswer(resp) ==
    IF result_text(resp) = None
    THEN None
    ELSE json_loads(cleaned(result_text(resp)[1]))

\* The failures of the LLM step: the call raised, a status other than 200,
\* no usable text, text that is not JSON, JSON that is no object, a score
\* that is no integer.
LLMStepFails(resp) ==
    \/ ParsedAnswer(resp) = None
    \/ ParsedAnswer(resp)[1].t # "obj"
    \/ /\ "score" \in DOMAIN ParsedAnswer(resp)[1].f
       /\ PyInt(ParsedAnswer(resp)[1].f["score"]) = None

\* C2 as amended: of two get_rating calls in a row on one date with no
\* refresh between them, when the first one stored its rating (a memo hit,
\* the no-key rating, or an answer that was parsed and validated), the
\* second returns the same rating and sends no LLM request.
C2_Memoized ==
    (/\ op.name = "get_rating"
     /\ op.prev # None
     /\ op.prev[1].date = op.date
     /\ op.prev[1].path # "fail")
        => (op.ret = op.prev[1].ret /\ ~op.usedLLM)

\* C2 as stated: the same for any two calls in a row on one date.
C2_Original ==
    (/\ op.name = "get_rating"
     /\ op.prev # None
     /\ op.prev[1].date = op.date)
        => (op.ret = op.prev[1].ret /\ ~op.usedLLM)

\* A memo hit right after a call that stored a validated answer.
C2_Witness ==
    /\ op.name = "get_rating"
    /\ op.path = "hit"
    /\ op.prev # None
    /\ op.prev[1].date = op.date
    /\ op.prev[1].path = "ok"

\* The step of task p is the return of get_rating from its LLM step.
LLMReturnStep(p) == req[p].pc = "llm" /\ req'[p].pc = "idle"

\* The step of task p is the return of get_rating with no key configured.
NoKeyStep(p) ==
    /\ req[p].kind = "get_rating"
    /\ req[p].pc = "gather"
    /\ req'[p].pc = "idle"

\* C3: get_rating writes the memo in exactly two cases, the no-key rating
\* (neutral/50, no LLM request) and an answer that was parsed and validated;
\* on a failure of the LLM step it returns the neutral fallback and leaves
\* the memo as it was, and the next call on that date sends the LLM request
\* again.
C3_MemoWrites ==
    [][ /\ \A p \in DOMAIN req :
            LLMReturnStep(p) =>
                IF LLMStepFails(op'.resp)
                THEN /\ op'.ret = FailureFallback(op'.date)
                     /\ _rating_cache' = _rating_cache
                ELSE _rating_cache' = DictPut(_rating_cache, op'.date, op'.ret)
        /\ \A p \in DOMAIN req :
            NoKeyStep(p) =>
                /\ ~LLM_API_KEY
                /\ ~op'.usedLLM
                /\ op'.ret = NoKeyFallback(op'.date)
                /\ _rating_cache' = DictPut(_rating_cache, op'.date, op'.ret)
        /\ (_rating_cache' # _rating_cache /\ _rating_cache' # EmptyDict) =>
                \E p \in DOMAIN req :
                    \/ NoKeyStep(p)
                    \/ LLMReturnStep(p) /\ ~LLMStepFails(op'.resp)
        /\ (/\ op'.name = "get_rating"
            /\ op'.prev # None
            /\ op'.prev[1].date = op'.date
            /\ op'.prev[1].path = "fail") => op'.usedLLM
      ]_vars

\* A failed call right after a failed call on the same date: the LLM was
\* asked again and the memo still has no entry for the date.
C3_Witness ==
    /\ op.name = "get_rating"
    /\ op.path = "fail"
    /\ LLMStepFails(op.resp)
    /\ op.usedLLM
    /\ op.prev # None
    /\ op.prev[1].date = op.date
    /\ op.prev[1].path = "fail"
    /\ op.date \notin DOMAIN _rating_cache

(***************************************************************************)
(* get_rating on one date with a wide range of answers: every combination  *)
(* of a present, absent, valid and invalid rating, score, summary, factors *)
(* and date key, and answers that are not an object or not JSON.           *)
(***************************************************************************)
RatingOpts == {None, Some(JStr("buy")), Some(JStr("buy-buy")), Some(JInt(1))}

ScoreOpts ==
    {None, Some(JInt(-5)), Some(JInt(70)), Some(JInt(150)), Some(JFloat(729)),
     Some(JFloat(-5)), Some(JStr("85")), Some(JStr("high")), Some(JNull)}

SummaryOpts == {None, Some(JStr("up"))}

FactorsOpts ==
    {None, Some(FullFactors), Some(JObj([k \in {"technical"} |-> JStr("text")])),
     Some(JStr("text"))}

DateOpts == {None, Some(JStr("1999-12-31"))}

ObjAnswers ==
    {RatingObj(r, sc, su, fa, da) :
        r \in RatingOpts, sc \in ScoreOpts, su \in SummaryOpts, fa \in FactorsOpts,
        da \in DateOpts}

ManyAnswers ==
    {LLMOk(<<JsonTok(v)>>, None) : v \in ObjAnswers \cup {JArr, JNull, JInt(7)}}
        \cup FewAnswers
        \cup {LLMBadBody,
              LLMOk(<<Ws>>, Some(<<JsonTok(RatingObj(Some(JStr("buy")), Some(JInt(70)),
                                                     None, None, None))>>)),
              LLMOk(<<>>, Some(<<JsonTok(RatingObj(Some(JStr("buy")), Some(JInt(70)),
                                                   None, None, None))>>)),
              LLMOk(<<Prose, Fence, Ws,
                      JsonTok(RatingObj(Some(JStr("cautious")), Some(JInt(30)),
                                        None, None, None)),
                      Fence, Prose>>, None)}

InitRepair == InitState({"p1"}, {TRUE}, 1..MaxDays)

NextRepair ==
    \/ \E p \in DOMAIN req : RatingStart(p)
    \/ \E p \in DOMAIN req, k \in RatingFetches : FetchStart(p, k)
    \/ \E p \in DOMAIN req : FetchIssue(p, NewsKey)
    \/ \E p \in DOMAIN req, k \in RatingFetches : FetchReturn(p, k, FALSE)
    \/ \E p \in DOMAIN req : RatingJoin(p)
    \/ \E p \in DOMAIN req, resp \in ManyAnswers : RatingLLMReturn(p, resp)

SpecRepair == InitRepair /\ [][NextRepair]_vars

\* The last call returned from its LLM step with an answer whose text
\* parsed to a JSON object.
ParsedToObject ==
    /\ op.name = "get_rating"
    /\ op.resp.kind = "ok"
    /\ ParsedAnswer(op.resp) # None
    /\ ParsedAnswer(op.resp)[1].t = "obj"

Clamp100(n) == IF n < 0 THEN 0 ELSE IF n > 100 THEN 100 ELSE n

\* The rating C4 describes for the parsed object o.
RepairedLabel(o) ==
    IF "rating" \in DOMAIN o /\ o["rating"] \in {JStr(l) : l \in valid_ratings}
    THEN o["rating"]
    ELSE JStr("neutral")

\* C4 as amended: for an answer that parses to a JSON object whose score is
\* absent or converts to an integer, the returned rating has the model's
\* label when it is one of the five and neutral otherwise, the converted
\* score (50 when absent) clamped into 0..100, the call's date, and factors
\* {--,--,--} when the object has none; when the score does not convert,
\* the failure fallback is returned.
C4_Repair ==
    ParsedToObject =>
        LET o == ParsedAnswer(op.resp)[1].f
        IN  IF "score" \in DOMAIN o /\ PyInt(o["score"]) = None
            THEN op.ret = FailureFallback(op.date)
            ELSE /\ op.ret["rating"] = RepairedLabel(o)
                 /\ op.ret["score"] =
                        JInt(Clamp100(IF "score" \in DOMAIN o
                                      THEN PyInt(o["score"])[1]
                                      ELSE 50))
                 /\ op.ret["date"] = JStr(op.date)
                 /\ "factors" \notin DOMAIN o =>
                    DictGet(op.ret, "factors") = Some(DefaultFactors)

\* C4 as stated: for every answer that parses to a JSON object the returned
\* rating has the model's label when it is one of the five (neutral
\* otherwise), the score clamped when it converts, the call's date, and the
\* default factors when the object has none.
C4_Original ==
    ParsedToObject =>
        LET o == ParsedAnswer(op.resp)[1].f
        IN  /\ op.ret["rating"] = RepairedLabel(o)
            /\ ("score" \in DOMAIN o /\ PyInt(o["score"]) # None) =>
                    op.ret["score"] = JInt(Clamp100(PyInt(o["score"])[1]))
            /\ op.ret["date"] = JStr(op.date)
            /\ "factors" \notin DOMAIN o =>
                    DictGet(op.ret, "factors") = Some(DefaultFactors)

\* {"rating":"buy-buy","score":150} with a date of its own was repaired to
\* neutral, 100, the call's date and the default factors.
C4_Witness ==
    /\ ParsedToObject
    /\ LET o == ParsedAnswer(op.resp)[1].f
       IN  /\ DictGet(o, "rating") = Some(JStr("buy-buy"))
           /\ DictGet(o, "score") = Some(JInt(150))
           /\ DictGet(o, "date") = Some(JStr("1999-12-31"))
           /\ "factors" \notin DOMAIN o
    /\ op.ret["rating"] = JStr("neutral")
    /\ op.ret["score"] = JInt(100)
    /\ op.ret["date"] = JStr(op.date)
    /\ op.ret["factors"] = DefaultFactors

RatingSchemaOK(r, date) ==
    /\ {"date", "rating", "score", "summary", "factors"} \subseteq DOMAIN r
    /\ r["date"] = JStr(date)
    /\ r["rating"] \in {JStr(l) : l \in valid_ratings}
    /\ r["score"].t = "int"
    /\ r["score"].n \in 0..100
    /\ r["summary"].t = "str"
    /\ r["factors"].t = "obj"
    /\ {"technical", "fundamental", "sentiment"} \subseteq DOMAIN r["factors"].f

\* C5: every entry of the rating memo under key d, and every rating that
\* get_rating returns, has the keys date, rating, score, summary and
\* factors, with date = d, rating one of the five labels, score an integer
\* in 0..100, summary a string, and factors holding technical, fundamental
\* and sentiment.
C5_RatingSchema ==
    /\ \A d \in DOMAIN _rating_cache : RatingSchemaOK(_rating_cache[d], d)
    /\ op.name = "get_rating" => RatingSchemaOK(op.ret, op.date)

(***************************************************************************)
(* Two request tasks served by the one event loop: get_rating and          *)
(* refresh_data requests overlap, each suspended at its gather and at its  *)
(* LLM call while the other runs.                                          *)
(***************************************************************************)
InitRatingConc == InitState({"p1", "p2"}, BOOLEAN, {1})

NextRatingConc ==
    \/ \E p \in DOMAIN req : RatingStart(p)
    \/ \E p \in DOMAIN req, k \in RatingFetches \cup RefreshFetches : FetchStart(p, k)
    \/ \E p \in DOMAIN req : FetchIssue(p, NewsKey)
    \/ \E p \in DOMAIN req, k \in RatingFetches \cup RefreshFetches :
            FetchReturn(p, k, FALSE)
    \/ \E p \in DOMAIN req : RatingJoin(p)
    \/ \E p \in DOMAIN req, resp \in {AnswerA, AnswerB, LLMStatus} :
            RatingLLMReturn(p, resp)
    \/ \E p \in DOMAIN req : RefreshStart(p)
    \/ \E p \in DOMAIN req : RefreshJoin(p)

SpecRatingConc == InitRatingConc /\ [][NextRatingConc]_vars

\* C6: once the memo holds a rating for a date, that entry is not replaced
\* by a different rating for as long as no refresh clears the memo, and
\* every get_rating that returns for that date while the entry is held
\* returns that rating.
C6_MemoImmutable ==
    [][ /\ \A d \in DOMAIN _rating_cache :
            d \in DOMAIN _rating_cache' => _rating_cache'[d] = _rating_cache[d]
        /\ \A p \in DOMAIN req :
            (LLMReturnStep(p) /\ op'.date \in DOMAIN _rating_cache) =>
                op'.ret = _rating_cache[op'.date]
      ]_vars

(***************************************************************************)
(* C7: refresh against requests in flight                                  *)
(***************************************************************************)
\* Task p returns from handler `kind` in this step.
Returns(p, kind) == req[p].kind = kind /\ req'[p].kind = "idle"

\* Every value a fetcher of task p returned came from upstream requests
\* issued when e clears or more had happened.
FetchedAt(p, e) == \A k \in DOMAIN req[p].f : req[p].f[k].ret[1].epoch >= e

\* C7: in every step, the quote, news and K-line values a refresh returns
\* were requested from upstream after that refresh cleared the cache; the
\* TTL cache holds no value whose upstream requests were issued before the
\* latest clear; and a rating is stored in the memo only when the data it was
\* computed from were requested after the latest clear.
C7_FreshSnapshot ==
    [][ /\ \A p \in DOMAIN req :
              Returns(p, "refresh_data") => FetchedAt(p, req[p].cleared)
        /\ \A k \in DOMAIN _cache' : _cache'[k].data.epoch = epoch'
        /\ \A p \in DOMAIN req :
              (Returns(p, "get_rating") /\ _rating_cache' # _rating_cache)
                  => FetchedAt(p, epoch)
      ]_vars

(***************************************************************************)
(* News aggregation, app.py:215-401.                                       *)
(*                                                                         *)
(* A text is a sequence of characters, each written as an ASCII string:    *)
(* "teng" and "xun" are the two characters of the company's short name,    *)
(* "zhang" is the one-character keyword for "rises", " " is a blank.  An   *)
(* item carries title, source, summary, tag and (international feed only)  *)
(* lang; url and time are copied from upstream, take no part in            *)
(* deduplication or ranking, and are left out.                             *)
(***************************************************************************)
Sp == " "
Teng == <<"teng", "xun">>

\* The keywords of app.py:221-237 that can be written with the characters
\* the texts below use; every other keyword holds a character that occurs in
\* none of them and so matches none.
_STOCK_KEYWORDS == {<<"zhang">>, <<"P", "E">>, <<"H", "K">>, <<"U", "B", "S">>}

\* `kw in text`
Contains(text, kw) ==
    \E i \in 1..(Len(text) - Len(kw) + 1) : SubSeq(text, i, i + Len(kw) - 1) = kw

\* app.py:240-246
_classify_news(title, summary) ==
    LET text == title \o summary
    IN  IF \E kw \in _STOCK_KEYWORDS : Contains(text, kw) THEN "stock" ELSE "general"

\* s[:n]
Take(s, n) == SubSeq(s, 1, Min(n, Len(s)))

\* summary[:120], app.py:273 and 344
SummaryMax == 120

\* str.strip() of a text
RECURSIVE str_lstrip(_)
str_lstrip(text) ==
    IF text # <<>> /\ Head(text) = Sp THEN str_lstrip(Tail(text)) ELSE text

RECURSIVE str_rstrip(_)
str_rstrip(text) ==
    IF text # <<>> /\ text[Len(text)] = Sp
    THEN str_rstrip(SubSeq(text, 1, Len(text) - 1))
    ELSE text

str_strip(text) == str_rstrip(str_lstrip(text))

SinaSource == "sina finance"
GoogleSource == "Google News"

\* One .box-result element of the search page, app.py:265-283: it yields an
\* item when it has an h2 link whose stripped text is not empty.
SinaRow(row) ==
    LET title == str_strip(row.title)
        summary == IF row.content # None
                   THEN Take(str_strip(row.content[1]), SummaryMax)
                   ELSE <<>>
    IN  IF row.h2 /\ title # <<>>
        THEN <<[title |-> title, source |-> SinaSource, summary |-> summary,
                tag |-> _classify_news(title, summary)]>>
        ELSE <<>>

RECURSIVE SinaRows(_)
SinaRows(rows) ==
    IF rows = <<>> THEN <<>> ELSE SinaRow(Head(rows)) \o SinaRows(Tail(rows))

\* _search_sina, app.py:249-286: the items of a 200 page; the empty list on
\* another status or when the request raises.
_search_sina(resp) ==
    IF resp.kind = "ok" THEN SinaRows(resp.rows) ELSE <<>>

\* One entry of the rolling feed, app.py:332-346: kept when its stripped
\* title is not empty and the name occurs in the title or the intro.
RollEntry(item) ==
    LET title == str_strip(item.title)
        intro == item.intro
    IN  IF title # <<>> /\ (Contains(title, Teng) \/ Contains(intro, Teng))
        THEN <<[title |-> title,
                source |-> IF item.media_name = None \/ item.media_name[1] = ""
                           THEN SinaSource
                           ELSE item.media_name[1],
                summary |-> Take(intro, SummaryMax),
                tag |-> _classify_news(title, intro)]>>
        ELSE <<>>

\* The loop of app.py:332-346 over the entries of the feed.  An entry that is
\* not an object, or whose title is null, or whose ctime is not a number,
\* raises inside the loop: the loop stops there, the except of app.py:347
\* catches, and what was appended before stays in all_news.
RECURSIVE RollEntries(_)
RollEntries(items) ==
    IF items = <<>> \/ Head(items).bad
    THEN <<>>
    ELSE RollEntry(Head(items)) \o RollEntries(Tail(items))

\* app.py:316-348: what the rolling feed appends to all_news.
RollingFeed(resp) ==
    IF resp.kind = "ok" THEN RollEntries(resp.rows) ELSE <<>>

\* One <item> of the RSS document, app.py:359-384.
GoogleItem(item) ==
    IF item.title # None /\ item.link
    THEN LET t == str_strip(item.title[1])
         IN  <<[title |-> t,
                source |-> IF item.source # None THEN item.source[1] ELSE GoogleSource,
                summary |-> <<>>, tag |-> _classify_news(t, <<>>), lang |-> "en"]>>
    ELSE <<>>

RECURSIVE GoogleItems(_)
GoogleItems(items) ==
    IF items = <<>> THEN <<>> ELSE GoogleItem(Head(items)) \o GoogleItems(Tail(items))

\* soup.select("item")[:8], app.py:359
GoogleCap == 8

\* app.py:351-386, one query: what it appends to all_news.
GoogleNews(resp) ==
    IF resp.kind = "ok" THEN GoogleItems(Take(resp.rows, GoogleCap)) ELSE <<>>

\* A variant of the loop of app.py:389-394 that keeps the last item of each
\* title, at the place of the first.
RECURSIVE unique_loop_keeplast(_, _)
unique_loop_keeplast(rest, seen) ==
    IF rest = <<>>
    THEN <<>>
    ELSE LET n == Head(rest)
             same == {i \in 1..Len(rest) : rest[i].title = n.title}
         IN  IF n.title \in seen
             THEN unique_loop_keeplast(Tail(rest), seen)
             ELSE <<rest[SetMax(same)]>>
                      \o unique_loop_keeplast(Tail(rest), seen \cup {n.title})

\* The loop of app.py:389-394 from item `rest` on, with the titles in `seen`.
RECURSIVE unique_loop(_, _)
unique_loop(rest, seen) ==
    IF rest = <<>>
    THEN <<>>
    ELSE LET n == Head(rest)
         IN  IF n.title \in seen
             THEN unique_loop(Tail(rest), seen)
             ELSE <<n>> \o unique_loop(Tail(rest), seen \cup {n.title})

\* app.py:388-394
unique_news(all_news) == unique_loop(all_news, {})

\* The sort key of app.py:397
sort_key(x) == IF x.tag = "stock" THEN 0 ELSE 1

\* x put into a list sorted by key at position pos + 1.
InsertAt(sorted, pos, x) ==
    SubSeq(sorted, 1, pos) \o <<x>> \o SubSeq(sorted, pos + 1, Len(sorted))

\* A variant that puts an item before the items of equal key.
insert_by_key_first(sorted, x) ==
    InsertAt(sorted,
             Cardinality({i \in 1..Len(sorted) : sort_key(sorted[i]) < sort_key(x)}),
             x)

\* x put into a list sorted by key, behind the items whose key is not
\* greater: the step of a stable sort.
insert_by_key(sorted, x) ==
    InsertAt(sorted,
             Cardinality({i \in 1..Len(sorted) : sort_key(sorted[i]) <= sort_key(x)}),
             x)

\* The items s[i..] put one by one into the sorted list.
RECURSIVE sort_from(_, _, _)
sort_from(s, i, sorted) ==
    IF i > Len(s) THEN sorted ELSE sort_from(s, i + 1, insert_by_key(sorted, s[i]))

\* list.sort(key=...), app.py:397: a stable sort
list_sort(s) == sort_from(s, 1, <<>>)

\* unique_news[:25], app.py:399
NewsMax == 25

\* app.py:388-399: from all_news to the list stored and returned.
news_result(all_news) == Take(list_sort(unique_news(all_news)), NewsMax)

(***************************************************************************)
(* Upstream answers used to drive fetch_news.  An answer is [kind, rows]:  *)
(* kind is "ok" (status 200 and a body that parses), "status" (another     *)
(* status), "exception" (the request raises or times out) or, for the      *)
(* rolling feed, "badjson" (resp.json() or the walk to result.data         *)
(* raises).                                                                *)
(***************************************************************************)
Upstream(kind, rows) == [kind |-> kind, rows |-> rows]

BlockLen == 10

\* 121 characters, the keyword being the last one.
LongText == [i \in 1..(SummaryMax + 1) |-> IF i = SummaryMax + 1 THEN "zhang" ELSE "x"]

H2(title, content) == [h2 |-> TRUE, title |-> title, content |-> content]

\* A page of BlockLen results whose titles hold a keyword.
SinaA == Upstream("ok", [i \in 1..BlockLen |-> H2(<<"zhang", "a", ToString(i)>>, None)])

\* A page with an element without h2 link, one with a blank title, a1 again
\* with blanks around the title and another summary, a title without keyword
\* whose summary holds one, and BlockLen results without keyword.
SinaB ==
    Upstream("ok",
        <<[h2 |-> FALSE, title |-> <<"n">>, content |-> None],
          H2(<<Sp, Sp>>, None),
          H2(<<Sp, "zhang", "a", "1", Sp>>, Some(<<"x">>)),
          H2(<<"b", "0">>, Some(<<Sp, "zhang">>))>>
        \o [i \in 1..BlockLen |-> H2(<<"b", ToString(i)>>, None)])

\* A page none of whose elements yields an item.
SinaSkipped ==
    Upstream("ok", <<[h2 |-> FALSE, title |-> <<"n">>, content |-> None],
                     H2(<<Sp>>, None)>>)

SinaResponses ==
    {Upstream("exception", <<>>), Upstream("status", <<>>), SinaSkipped, SinaA, SinaB}

Entry(title, intro, media_name) ==
    [bad |-> FALSE, title |-> title, intro |-> intro, media_name |-> media_name]

BadEntry == [bad |-> TRUE, title |-> <<>>, intro |-> <<>>, media_name |-> None]

\* a1 again from another medium, an entry that does not name the company, an
\* entry whose only keyword is the 121st character of its intro, and
\* BlockLen entries with a keyword in the title.
RollC ==
    Upstream("ok",
        <<Entry(<<"zhang", "a", "1">>, Teng, Some("caixin")),
          Entry(<<"c", "0">>, <<"x">>, Some("")),
          Entry(<<"teng", "xun", "L">>, LongText, None)>>
        \o [i \in 1..BlockLen |->
                Entry(<<"teng", "xun", "zhang", "c", ToString(i)>>, <<>>, Some(""))])

\* A payload whose second entry is malformed.
RollPartial ==
    Upstream("ok", <<Entry(<<"teng", "xun", "r", "1">>, <<>>, None),
                     BadEntry,
                     Entry(<<"teng", "xun", "r", "2">>, <<>>, None)>>)

RollSkipped == Upstream("ok", <<Entry(<<"c", "0">>, <<"x">>, None)>>)

RollResponses ==
    {Upstream("exception", <<>>), Upstream("status", <<>>), Upstream("badjson", <<>>),
     RollSkipped, RollC, RollPartial}

Rss(title, link, source) == [title |-> title, link |-> link, source |-> source]

\* An <item> without title, one without link, b1 again from another medium,
\* and BlockLen items with a keyword in the title, more than the eight the
\* loop reads.
GoogleD ==
    Upstream("ok",
        <<Rss(None, TRUE, None),
          Rss(Some(<<"d", "0">>), FALSE, None),
          Rss(Some(<<"b", "1">>), TRUE, Some("Reuters"))>>
        \o [i \in 1..BlockLen |-> Rss(Some(<<"U", "B", "S", "d", ToString(i)>>), TRUE, None)])

GoogleResponses ==
    {Upstream("exception", <<>>), Upstream("status", <<>>), GoogleD}

(***************************************************************************)
(* fetch_news as a task, app.py:289-401                                    *)
(***************************************************************************)
NewsOp(path, ret, all_news, srcs) ==
    [name |-> "fetch_news", path |-> path, ret |-> ret, all_news |-> all_news,
     srcs |-> srcs]

\* app.py:291-293, the cache is read and a non-empty cached list is returned;
\* otherwise app.py:300-311, the four searches are sent.
NewsStart(p) ==
    /\ req[p].kind = "idle"
    /\ LET cached == _get_cache(_cache, NewsKey, now)
       IN  IF cached # None /\ cached[1] # <<>>
           THEN /\ op' = NewsOp("hit", cached[1], <<>>, <<>>)
                /\ UNCHANGED req
           ELSE /\ req' = [req EXCEPT ![p] =
                            [kind |-> "fetch_news", pc |-> "sina",
                             all_news |-> <<>>, srcs |-> <<>>]]
                /\ op' = NoOp
    /\ UNCHANGED <<clockVars, _cache, ratingVars, epoch, setLog>>

\* app.py:311-328: the gather of the four searches returns their lists in
\* the order of the tasks; the rolling feed is requested.
NewsSina(p, r1, r2, r3, r4) ==
    /\ req[p].kind = "fetch_news"
    /\ req[p].pc = "sina"
    /\ req' = [req EXCEPT
                ![p].all_news = _search_sina(r1) \o _search_sina(r2)
                                    \o _search_sina(r3) \o _search_sina(r4),
                ![p].srcs = <<r1, r2, r3, r4>>,
                ![p].pc = "roll"]
    /\ UNCHANGED <<clockVars, _cache, ratingVars, epoch, op, setLog>>

\* app.py:329-356: the rolling feed answers; the first international query
\* is sent.
NewsRoll(p, r) ==
    /\ req[p].kind = "fetch_news"
    /\ req[p].pc = "roll"
    /\ req' = [req EXCEPT ![p].all_news = @ \o RollingFeed(r),
                          ![p].srcs = Append(@, r),
                          ![p].pc = "gn1"]
    /\ UNCHANGED <<clockVars, _cache, ratingVars, epoch, op, setLog>>

\* app.py:357-386, first query: its items are appended and the second query
\* is sent.
NewsGoogle1(p, r) ==
    /\ req[p].kind = "fetch_news"
    /\ req[p].pc = "gn1"
    /\ req' = [req EXCEPT ![p].all_news = @ \o GoogleNews(r),
                          ![p].srcs = Append(@, r),
                          ![p].pc = "gn2"]
    /\ UNCHANGED <<clockVars, _cache, ratingVars, epoch, op, setLog>>

\* app.py:357-401, second query: its items are appended, the list is
\* deduplicated, sorted and cut, stored in the cache and returned.
NewsGoogle2(p, r) ==
    /\ req[p].kind = "fetch_news"
    /\ req[p].pc = "gn2"
    /\ LET all_news == req[p].all_news \o GoogleNews(r)
           result == news_result(all_news)
       IN  /\ _cache' = _set_cache(_cache, NewsKey, result, now)
           /\ setLog' = DictPut(setLog, NewsKey, [ts |-> now, data |-> result])
           /\ op' = NewsOp("miss", result, all_news, Append(req[p].srcs, r))
    /\ req' = [req EXCEPT ![p] = IdleReq]
    /\ UNCHANGED <<clockVars, ratingVars, epoch>>

InitNews == InitState({"p1"}, {FALSE}, {1})

NextNews ==
    \/ \E p \in DOMAIN req : NewsStart(p)
    \/ \E p \in DOMAIN req, r1, r2, r3, r4 \in SinaResponses : NewsSina(p, r1, r2, r3, r4)
    \/ \E p \in DOMAIN req, r \in RollResponses : NewsRoll(p, r)
    \/ \E p \in DOMAIN req, r \in GoogleResponses : NewsGoogle1(p, r)
    \/ \E p \in DOMAIN req, r \in GoogleResponses : NewsGoogle2(p, r)

SpecNews == InitNews /\ [][NextNews]_vars

(***************************************************************************)
(* C8-C10: what fetch_news returns                                         *)
(***************************************************************************)
\* What the seven source calls yield, in gather order: the four searches in
\* the order they were issued, the rolling feed, the two international
\* queries.
SourceOrder(srcs) ==
    _search_sina(srcs[1]) \o _search_sina(srcs[2]) \o _search_sina(srcs[3])
        \o _search_sina(srcs[4]) \o RollingFeed(srcs[5])
        \o GoogleNews(srcs[6]) \o GoogleNews(srcs[7])

\* all[k] is the first item of all with its title.
FirstOfTitle(all, k) == \A j \in 1..(k - 1) : all[j].title # all[k].title

\* C8: no two items of a returned list have the same title, and every item
\* of a freshly computed list is the first item with its title in
\* source-gather order.
C8_Dedup ==
    op.name = "fetch_news" =>
        /\ \A i, j \in 1..Len(op.ret) : op.ret[i].title = op.ret[j].title => i = j
        /\ op.path = "miss" =>
              LET all == SourceOrder(op.srcs)
              IN  \A i \in 1..Len(op.ret) :
                      \E k \in 1..Len(all) : all[k] = op.ret[i] /\ FirstOfTitle(all, k)

\* A list was returned that keeps an item whose title came again, later, from
\* another source.
C8_Witness ==
    /\ op.name = "fetch_news"
    /\ op.path = "miss"
    /\ LET all == SourceOrder(op.srcs)
       IN  \E i \in 1..Len(op.ret), k, m \in 1..Len(all) :
              /\ k < m
              /\ all[k] = op.ret[i]
              /\ all[m].title = all[k].title
              /\ all[m].source # all[k].source

IsStock(x) == x.tag = "stock"
IsGeneral(x) == x.tag # "stock"

\* The stable partition of a list: the stock items, then the others, each
\* group in the order of the list.
StockFirst(d) == SelectSeq(d, IsStock) \o SelectSeq(d, IsGeneral)

\* C9: a freshly computed list is the first 25 items of the stable partition
\* of the deduplicated list into stock items followed by general items; a
\* list served from the cache is the list the computing call stored; so every
\* returned list has at most 25 items and no general item before a stock
\* item.
C9_RankTruncate ==
    op.name = "fetch_news" =>
        /\ op.path = "miss" =>
              op.ret = Take(StockFirst(unique_news(SourceOrder(op.srcs))), NewsMax)
        /\ op.path = "hit" => op.ret = setLog[NewsKey].data
        /\ Len(op.ret) <= NewsMax
        /\ \A i, j \in 1..Len(op.ret) :
              (i < j /\ IsStock(op.ret[j])) => IsStock(op.ret[i])

\* A call computed a list from more than 25 distinct stock items and some
\* general ones, one of these ahead of a stock item.
C9_Witness ==
    /\ op.name = "fetch_news"
    /\ op.path = "miss"
    /\ LET d == unique_news(SourceOrder(op.srcs))
       IN  /\ Len(SelectSeq(d, IsStock)) > NewsMax
           /\ Len(SelectSeq(d, IsGeneral)) > 0
           /\ \E i, j \in 1..Len(d) : i < j /\ IsGeneral(d[i]) /\ IsStock(d[j])
    /\ Len(op.ret) = NewsMax

\* Source call i of a fetch failed: it raised, timed out, answered another
\* status than 200, or its payload was malformed.
SourceFailed(srcs, i) ==
    \/ srcs[i].kind # "ok"
    \/ i = 5 /\ \E k \in 1..Len(srcs[i].rows) : srcs[i].rows[k].bad

\* The items of source call i.
SourceItems(srcs, i) ==
    IF i <= 4 THEN _search_sina(srcs[i])
    ELSE IF i = 5 THEN RollingFeed(srcs[i])
    ELSE GoogleNews(srcs[i])

RECURSIVE NonFailing(_, _)
NonFailing(srcs, i) ==
    IF i > Len(srcs)
    THEN <<>>
    ELSE (IF SourceFailed(srcs, i) THEN <<>> ELSE SourceItems(srcs, i))
            \o NonFailing(srcs, i + 1)

\* C10: whatever subset of the source calls fails, the call returns, the list
\* it deduplicates holds no item of a failed source and every item of the
\* others, and when every source failed or yielded nothing it returns the
\* empty list.
C10_Isolation ==
    (op.name = "fetch_news" /\ op.path = "miss") =>
        /\ op.all_news = NonFailing(op.srcs, 1)
        /\ (\A i \in 1..Len(op.srcs) :
                SourceFailed(op.srcs, i) \/ SourceItems(op.srcs, i) = <<>>)
              => op.ret = <<>>

(***************************************************************************)
(* fetch_kline_data, app.py:166-213                                        *)
(***************************************************************************)
\* The strings float() converts, with their values in tenths; float() raises
\* on any other string.
FloatStrings == [s \in {"380.2", "381.0"} |-> IF s = "380.2" THEN 3802 ELSE 3810]

\* float(x) of app.py:201-205 for a JSON value x, in tenths: Some(v), or None
\* when it raises.
PyFloat(x) ==
    CASE x.t = "int" -> Some(10 * x.n)
      [] x.t = "float" -> Some(x.n)
      [] x.t = "str" -> IF x.s \in DOMAIN FloatStrings THEN Some(FloatStrings[x.s]) ELSE None
      [] OTHER -> None

\* app.py:177-178
NormPeriod(period) == IF period \in {"day", "week", "month"} THEN period ELSE "day"

\* app.py:179
ClampCount(count) == Min(Max(count, 10), 1500)

\* The dict of app.py:199-206 for one row, a JSON array held as a sequence:
\* None when row[i] or float() raises.
kline_point(row) ==
    IF \/ Len(row) < 5
       \/ \E i \in 2..5 : PyFloat(row[i]) = None
       \/ Len(row) > 5 /\ PyFloat(row[6]) = None
    THEN None
    ELSE Some([date |-> row[1], open |-> PyFloat(row[2])[1], close |-> PyFloat(row[3])[1],
               high |-> PyFloat(row[4])[1], low |-> PyFloat(row[5])[1],
               volume |-> IF Len(row) > 5 THEN PyFloat(row[6])[1] ELSE 0])

\* The loop of app.py:198-206 from row i on: it appends a point per row and
\* stops at the first row that raises; what was appended stays in kline_list.
RECURSIVE kline_rows(_, _)
kline_rows(items, i) ==
    IF i > Len(items) \/ kline_point(items[i]) = None
    THEN <<>>
    ELSE <<kline_point(items[i])[1]>> \o kline_rows(items, i + 1)

\* hk.get(period, []) or hk.get(f"qfq{period}", []), app.py:194-197
kline_items(hk, period) ==
    IF period \in DOMAIN hk /\ hk[period] # <<>>
    THEN hk[period]
    ELSE IF ("qfq" \o period) \in DOMAIN hk THEN hk["qfq" \o period] ELSE <<>>

\* app.py:181-210: kline_list after the try block, for the answer resp to the
\* request for the normalized period.  A body is [t |-> "obj", data |-> d] or
\* a JSON value that is no object; so are data and data.hk00700, whose
\* members are the series.
kline_list(period, resp) ==
    IF resp.kind # "ok" \/ resp.body.t # "obj" \/ resp.body.data.t # "obj"
       \/ resp.body.data.hk.t # "obj"
    THEN <<>>
    ELSE kline_rows(kline_items(resp.body.data.hk.series, period), 1)

(***************************************************************************)
(* Answers of the K-line feed.                                             *)
(***************************************************************************)
NotObj == [t |-> "arr"]

KBody(series) ==
    [t |-> "obj", data |-> [t |-> "obj", hk |-> [t |-> "obj", series |-> series]]]

KResp(kind, body) == [kind |-> kind, body |-> body]

KDate(i) == JStr("2026-01-" \o (IF i < 10 THEN "0" ELSE "") \o ToString(i))

GoodRow(i) ==
    <<KDate(i), JStr("380.2"), JStr("381.0"), JStr("381.0"), JStr("380.2"), JInt(7)>>

\* A row without volume.
FiveRow(i) == <<KDate(i), JStr("380.2"), JStr("381.0"), JStr("381.0"), JStr("380.2")>>

\* A row with two members, and a row whose open is not a number.
ShortRow(i) == <<KDate(i), JStr("380.2")>>
BadNumRow(i) == <<KDate(i), JStr("n/a"), JStr("381.0"), JStr("381.0"), JStr("380.2")>>

\* The feed may answer with any number of rows; UpstreamRows is more than the
\* smallest count a request carries.
UpstreamRows == 12

OneSeries(key, rows) == [k \in {key} |-> rows]

KlineResponses(period) ==
    {KResp("exception", NotObj), KResp("status", NotObj), KResp("badjson", NotObj),
     KResp("ok", NotObj),
     KResp("ok", [t |-> "obj", data |-> NotObj]),
     KResp("ok", [t |-> "obj", data |-> [t |-> "obj", hk |-> NotObj]]),
     KResp("ok", KBody(EmptyDict)),
     KResp("ok", KBody(OneSeries(period, [i \in 1..UpstreamRows |-> GoodRow(i)]))),
     KResp("ok", KBody([k \in {period, "qfq" \o period} |->
                            IF k = period THEN <<>> ELSE <<FiveRow(1), GoodRow(2)>>])),
     KResp("ok", KBody(OneSeries(period, <<GoodRow(1), GoodRow(2), ShortRow(3), GoodRow(4)>>))),
     KResp("ok", KBody(OneSeries(period, <<GoodRow(1), BadNumRow(2)>>)))}

\* The upstream call failed: it raised or timed out, answered another status,
\* or its payload was malformed (no JSON, not of the expected shape, or a row
\* that cannot be read).
KlineFailed(period, resp) ==
    \/ resp.kind # "ok"
    \/ resp.body.t # "obj"
    \/ resp.body.data.t # "obj"
    \/ resp.body.data.hk.t # "obj"
    \/ LET items == kline_items(resp.body.data.hk.series, period)
       IN  \E i \in 1..Len(items) : kline_point(items[i]) = None

(***************************************************************************)
(* fetch_kline_data as a task                                              *)
(***************************************************************************)
KPeriods == {"day", "week", "foo"}
KCounts == {5, 10, 2000}

\* At most MaxKlineKeys cache entries are created in a run.
MaxKlineKeys == 2

\* `request` is the upstream request the call made, if any; `stored` and `t0`
\* are history: the last value stored under the call's key, and the time,
\* when the call started.
KlineOp(r, path, ret, request, resp) ==
    [name |-> "fetch_kline", period |-> r.period, count |-> r.count,
     key |-> r.cache_key, path |-> path, ret |-> ret, request |-> request,
     resp |-> resp, stored |-> r.stored, cache0 |-> r.cache0, t0 |-> r.t0]

\* app.py:171-190: the key is built from the arguments as given, the cache is
\* read and a non-empty cached list is returned; otherwise the arguments are
\* normalized and the request is sent.
KlineStart(p, period, count) ==
    /\ req[p].kind = "idle"
    /\ LET cache_key == kline_key(period, count)
           cached == _get_cache(_cache, cache_key, now)
           r == [kind |-> "fetch_kline", pc |-> "await", period |-> period,
                 count |-> count, cache_key |-> cache_key,
                 request |-> [period |-> NormPeriod(period), count |-> ClampCount(count)],
                 stored |-> DictGet(setLog, cache_key), cache0 |-> _cache, t0 |-> now]
       IN  /\ cache_key \in DOMAIN _cache \/ Cardinality(DOMAIN _cache) < MaxKlineKeys
           /\ IF cached # None /\ cached[1] # <<>>
              THEN /\ op' = KlineOp(r, "hit", cached[1], None, NoResp)
                   /\ UNCHANGED req
              ELSE /\ req' = [req EXCEPT ![p] = r]
                   /\ op' = NoOp
    /\ UNCHANGED <<clockVars, _cache, ratingVars, epoch, setLog>>

\* app.py:191-213: the answer arrives (or the call raises); the rows are
\* read, and the list is stored under the key and returned.
KlineReturn(p, resp) ==
    /\ req[p].kind = "fetch_kline"
    /\ LET result == kline_list(req[p].request.period, resp)
       IN  /\ _cache' = _set_cache(_cache, req[p].cache_key, result, now)
           /\ setLog' = DictPut(setLog, req[p].cache_key, [ts |-> now, data |-> result])
           /\ op' = KlineOp(req[p], "miss", result, Some(req[p].request), resp)
    /\ req' = [req EXCEPT ![p] = IdleReq]
    /\ UNCHANGED <<clockVars, ratingVars, epoch>>

InitKline == InitState({"p1"}, {FALSE}, {1})

NextKline ==
    \/ ClockTick
    \/ \E p \in DOMAIN req, period \in KPeriods, count \in KCounts :
            KlineStart(p, period, count)
    \/ \E p \in {q \in DOMAIN req : req[q].kind = "fetch_kline"} :
         \E resp \in KlineResponses(req[p].request.period) : KlineReturn(p, resp)

SpecKline == InitKline /\ [][NextKline]_vars

(***************************************************************************)
(* C11-C14, C20: what fetch_kline_data returns and caches                  *)
(***************************************************************************)
\* C11 (for fetch_kline_data; fetch_news reads its cache the same way): a
\* call that starts less than 300 s after a result was stored for the same
\* arguments, with no clear in between, returns that result and makes no
\* upstream request, whatever the result, the empty list included.
C11_FetcherCaching ==
    (/\ op.name = "fetch_kline"
     /\ op.stored # None
     /\ op.t0 - op.stored[1].ts < CACHE_TTL)
        => (op.ret = op.stored[1].data /\ op.request = None)

AllowedPeriods == {"day", "week", "month"}

\* What fetch_kline_data("day", count) does in cache state c at time t when
\* the feed answers resp: [ret, upstream].
DayCall(c, t, count, resp) ==
    LET cached == _get_cache(c, kline_key("day", count), t)
    IN  IF cached # None /\ cached[1] # <<>>
        THEN [ret |-> cached[1], upstream |-> FALSE]
        ELSE [ret |-> kline_list("day", resp), upstream |-> TRUE]

\* C12: the upstream request carries a period of {day, week, month} (day for
\* any other argument) and the count clamped into 10..1500, and a call with
\* a period outside the set returns what the call with period day returns in
\* the same cache state for the same upstream answer, making an upstream
\* request exactly when that call makes one.
C12_KlineNormalized ==
    op.name = "fetch_kline" =>
        /\ op.request # None =>
              /\ op.request[1].period \in AllowedPeriods
              /\ op.period \in AllowedPeriods => op.request[1].period = op.period
              /\ op.period \notin AllowedPeriods => op.request[1].period = "day"
              /\ op.request[1].count \in 10..1500
              /\ op.count \in 10..1500 => op.request[1].count = op.count
        /\ op.period \notin AllowedPeriods =>
              LET asDay == DayCall(op.cache0, op.t0, op.count, op.resp)
              IN  /\ asDay.upstream = (op.request # None)
                  /\ op.ret = asDay.ret

\* C13: the returned list is never longer than the clamped count.
C13_KlineLength ==
    op.name = "fetch_kline" => Len(op.ret) <= Min(Max(op.count, 10), 1500)

\* C14: when the upstream call fails, a payload with a malformed row after
\* valid ones included, the call returns the empty list.
C14_KlineFailure ==
    (/\ op.name = "fetch_kline"
     /\ op.path = "miss"
     /\ KlineFailed(op.request[1].period, op.resp))
        => op.ret = <<>>

\* The keys of the normalized (period, count) pairs.
NormalizedKlineKeys == {kline_key(period, count) : period \in AllowedPeriods, count \in 10..1500}

\* The keys of the arguments that normalize as (period, count) does.
SameNormKeys(period, count) ==
    {kline_key(p2, c2) : p2 \in {x \in KPeriods : NormPeriod(x) = NormPeriod(period)},
                         c2 \in {x \in KCounts : ClampCount(x) = ClampCount(count)}}

\* C20: a call reads and writes the entry of its normalized (period, count),
\* so it is a cache hit when a call with arguments that normalize alike
\* stored a non-empty list less than 300 s before, and every K-line key in
\* the cache is the key of a normalized pair.
C20_KlineKeyNormalized ==
    /\ op.name = "fetch_kline" =>
          /\ op.key = kline_key(NormPeriod(op.period), ClampCount(op.count))
          /\ (\E k \in SameNormKeys(op.period, op.count) \cap DOMAIN op.cache0 :
                  /\ op.t0 - op.cache0[k].ts < CACHE_TTL
                  /\ op.cache0[k].data # <<>>)
                => op.request = None
    /\ DOMAIN _cache \subseteq NormalizedKlineKeys

(***************************************************************************)
(* fetch_stock_data, app.py:69-163.  A quote is a dict from field name to  *)
(* string.  Member i of a feed's list is the string "f<i>" (primary) or    *)
(* "q<i>" (secondary), so that a field shows which member it was taken     *)
(* from; the time of day is "t<now>".                                      *)
(***************************************************************************)
Sentinel == "--"

TimeStr(t) == "t" \o ToString(t)

\* stock_info as initialized at app.py:82-99
InitialQuote(t) ==
    [k \in {"name", "code", "current_price", "change", "change_percent", "open",
            "high", "low", "prev_close", "volume", "turnover", "market_cap",
            "pe_ratio", "52w_high", "52w_low", "updated_at"} |->
        CASE k = "name" -> "Tencent Holdings"
          [] k = "code" -> "00700.HK"
          [] k = "updated_at" -> TimeStr(t)
          [] OTHER -> Sentinel]

\* dict.update(other)
DictUpdate(d, other) ==
    [k \in (DOMAIN d) \cup (DOMAIN other) |-> IF k \in DOMAIN other THEN other[k] ELSE d[k]]

\* fields[i] of a Python list held as a sequence
At(list, i) == list[i + 1]

\* app.py:101-130: stock_info after the primary feed answered resp at time t.
\* The text of a 200 answer is [quoted, fields]: whether it holds a double
\* quote, and the comma-separated members of the quoted part.
merge_primary(stock_info, resp, t) ==
    IF resp.kind = "ok" /\ resp.text.quoted /\ Len(resp.text.fields) > 15
    THEN LET fields == resp.text.fields
         IN  DictUpdate(stock_info,
                [k \in {"name", "name_en", "current_price", "change", "change_percent",
                        "prev_close", "open", "high", "low", "volume", "turnover",
                        "updated_at"} |->
                    CASE k = "name" -> "Tencent Holdings"
                      [] k = "name_en" -> IF At(fields, 0) # "" THEN At(fields, 0) ELSE "TENCENT"
                      [] k = "current_price" -> At(fields, 6)
                      [] k = "change" -> At(fields, 7)
                      [] k = "change_percent" -> At(fields, 8)
                      [] k = "prev_close" -> At(fields, 3)
                      [] k = "open" -> At(fields, 2)
                      [] k = "high" -> At(fields, 4)
                      [] k = "low" -> At(fields, 5)
                      [] k = "volume" -> At(fields, 12)
                      [] k = "turnover" -> At(fields, 11)
                      [] k = "updated_at" -> TimeStr(t)])
    ELSE stock_info

\* qt[i] if len(qt) > i else "--"
QtOr(qt, i) == IF Len(qt) > i THEN At(qt, i) ELSE Sentinel

\* The fields app.py:147-158 set from qt.
SecondaryFields(qt) ==
    [k \in {"market_cap", "pe_ratio", "52w_high", "52w_low", "dividend_yield",
            "pb_ratio", "turnover_rate", "amplitude", "total_shares", "float_shares",
            "nav_per_share"} |->
        CASE k = "market_cap" -> QtOr(qt, 45)
          [] k = "pe_ratio" -> QtOr(qt, 39)
          [] k = "52w_high" -> QtOr(qt, 48)
          [] k = "52w_low" -> QtOr(qt, 49)
          [] k = "dividend_yield" -> QtOr(qt, 47)
          [] k = "pb_ratio" -> QtOr(qt, 51)
          [] k = "turnover_rate" -> QtOr(qt, 50)
          [] k = "amplitude" -> QtOr(qt, 43)
          [] k = "total_shares" -> QtOr(qt, 69)
          [] k = "float_shares" -> QtOr(qt, 70)
          [] k = "nav_per_share" -> QtOr(qt, 72)]

\* A variant that leaves the price to the primary feed.
fill_from_qt_noprice(stock_info, qt) == DictUpdate(stock_info, SecondaryFields(qt))

\* app.py:144-158: the price is taken from qt when the primary feed left the
\* placeholder, and the valuation fields are set.
fill_from_qt(stock_info, qt) ==
    DictUpdate(IF stock_info["current_price"] = Sentinel
               THEN [stock_info EXCEPT !["current_price"] = At(qt, 3)]
               ELSE stock_info,
               SecondaryFields(qt))

\* app.py:132-160: stock_info after the secondary feed answered resp.  The
\* body of a 200 answer is [t, qt]: t is "scalar" (a JSON number, on which
\* `"data" in data` raises), "nodata" (an object without data.hk00700),
\* "hkarr" (data.hk00700 is an array, on which .get raises) or "qt", with qt
\* the list data.hk00700.qt.hk00700, empty when it is absent.
merge_secondary(stock_info, resp) ==
    IF resp.kind = "ok" /\ resp.body.t = "qt" /\ Len(resp.body.qt) > 45
    THEN fill_from_qt(stock_info, resp.body.qt)
    ELSE stock_info

(***************************************************************************)
(* Answers of the two quote feeds.                                         *)
(***************************************************************************)
PrimaryText(quoted, n, first) ==
    [quoted |-> quoted,
     fields |-> [i \in 1..n |-> IF i = 1 THEN first ELSE "f" \o ToString(i - 1)]]

NoText == PrimaryText(FALSE, 0, "")

PrimaryResp(kind, text) == [kind |-> kind, text |-> text]

PrimaryResponses ==
    {PrimaryResp("exception", NoText), PrimaryResp("status", NoText),
     PrimaryResp("ok", NoText),
     PrimaryResp("ok", PrimaryText(TRUE, 15, "f0")),
     PrimaryResp("ok", PrimaryText(TRUE, 16, "")),
     PrimaryResp("ok", PrimaryText(TRUE, 19, "f0"))}

Qt(n) == [i \in 1..n |-> "q" \o ToString(i - 1)]

SecondaryResp(kind, t, qt) == [kind |-> kind, body |-> [t |-> t, qt |-> qt]]

SecondaryResponses ==
    {SecondaryResp("exception", "none", <<>>), SecondaryResp("status", "none", <<>>),
     SecondaryResp("badjson", "none", <<>>),
     SecondaryResp("ok", "scalar", <<>>), SecondaryResp("ok", "nodata", <<>>),
     SecondaryResp("ok", "hkarr", <<>>),
     SecondaryResp("ok", "qt", <<>>), SecondaryResp("ok", "qt", Qt(45)),
     SecondaryResp("ok", "qt", Qt(46)), SecondaryResp("ok", "qt", Qt(50)),
     SecondaryResp("ok", "qt", Qt(73))}

(***************************************************************************)
(* fetch_stock_data as a task                                              *)
(***************************************************************************)
QuoteOp(path, ret, primary, secondary) ==
    [name |-> "fetch_stock", path |-> path, ret |-> ret, primary |-> primary,
     secondary |-> secondary]

\* app.py:71-103: the cache is read and a cached quote is returned; otherwise
\* stock_info is initialized and the primary feed is requested.
QuoteStart(p) ==
    /\ req[p].kind = "idle"
    /\ LET cached == _get_cache(_cache, StockKey, now)
       IN  IF cached # None /\ DOMAIN cached[1] # {}
           THEN /\ op' = QuoteOp("hit", cached[1], NoResp, NoResp)
                /\ UNCHANGED req
           ELSE /\ req' = [req EXCEPT ![p] =
                            [kind |-> "fetch_stock", pc |-> "primary",
                             stock_info |-> InitialQuote(now), primary |-> NoResp]]
                /\ op' = NoOp
    /\ UNCHANGED <<clockVars, _cache, ratingVars, epoch, setLog>>

\* A variant in which the calls in flight work on one shared stock_info.
QuotePrimary_shared(p, resp) ==
    /\ req[p].kind = "fetch_stock"
    /\ req[p].pc = "primary"
    /\ req' = [q \in DOMAIN req |->
                 IF req[q].kind # "fetch_stock" THEN req[q]
                 ELSE [req[q] EXCEPT
                         !.stock_info = merge_primary(@, resp, now),
                         !.primary = IF q = p THEN resp ELSE @,
                         !.pc = IF q = p THEN "secondary" ELSE @]]
    /\ UNCHANGED <<clockVars, _cache, ratingVars, epoch, op, setLog>>

\* app.py:104-139: the primary feed answers (or raises); the secondary feed
\* is requested.
QuotePrimary(p, resp) ==
    /\ req[p].kind = "fetch_stock"
    /\ req[p].pc = "primary"
    /\ req' = [req EXCEPT ![p].stock_info = merge_primary(@, resp, now),
                          ![p].primary = resp,
                          ![p].pc = "secondary"]
    /\ UNCHANGED <<clockVars, _cache, ratingVars, epoch, op, setLog>>

\* app.py:140-163: the secondary feed answers (or raises); the quote is
\* stored and returned.
QuoteSecondary(p, resp) ==
    /\ req[p].kind = "fetch_stock"
    /\ req[p].pc = "secondary"
    /\ LET stock_info == merge_secondary(req[p].stock_info, resp)
       IN  /\ _cache' = _set_cache(_cache, StockKey, stock_info, now)
           /\ setLog' = DictPut(setLog, StockKey, [ts |-> now, data |-> stock_info])
           /\ op' = QuoteOp("miss", stock_info, req[p].primary, resp)
    /\ req' = [req EXCEPT ![p] = IdleReq]
    /\ UNCHANGED <<clockVars, ratingVars, epoch>>

InitQuote == InitState({"p1"}, {FALSE}, {1})

NextQuote ==
    \/ ClockTick
    \/ \E p \in DOMAIN req : QuoteStart(p)
    \/ \E p \in DOMAIN req, resp \in PrimaryResponses : QuotePrimary(p, resp)
    \/ \E p \in DOMAIN req, resp \in SecondaryResponses : QuoteSecondary(p, resp)

SpecQuote == InitQuote /\ [][NextQuote]_vars

(***************************************************************************)
(* Claims about the quote                                                  *)
(***************************************************************************)
\* The primary feed failed entirely: nothing of it reached the quote.
PrimaryDown(resp) ==
    ~(resp.kind = "ok" /\ resp.text.quoted /\ Len(resp.text.fields) > 15)

\* The secondary feed succeeded.
SecondaryUp(resp) == resp.kind = "ok" /\ resp.body.t = "qt" /\ Len(resp.body.qt) > 45

PrimaryOnlyFields ==
    {"change", "change_percent", "open", "high", "low", "prev_close", "volume", "turnover"}

FetchedWithPrimaryDown ==
    /\ op.name = "fetch_stock"
    /\ op.path = "miss"
    /\ PrimaryDown(op.primary)
    /\ SecondaryUp(op.secondary)

\* C15 as stated: when the primary feed fails entirely and the secondary feed
\* succeeds, the quote has the current price, change, change percent, open,
\* high, low, previous close, volume and turnover all equal to "--", and
\* market cap and P/E taken from the secondary payload.
C15_Original ==
    FetchedWithPrimaryDown =>
        /\ \A k \in PrimaryOnlyFields \cup {"current_price"} : op.ret[k] = Sentinel
        /\ op.ret["market_cap"] = At(op.secondary.body.qt, 45)
        /\ op.ret["pe_ratio"] = At(op.secondary.body.qt, 39)

\* C15: when the primary feed fails entirely and the secondary feed succeeds,
\* the quote has change, change percent, open, high, low, previous close,
\* volume and turnover equal to "--", the current price taken from the
\* secondary payload (member 3), and market cap and P/E taken from the
\* secondary payload (members 45 and 39).
C15_PrimaryDown ==
    FetchedWithPrimaryDown =>
        /\ \A k \in PrimaryOnlyFields : op.ret[k] = Sentinel
        /\ op.ret["current_price"] = At(op.secondary.body.qt, 3)
        /\ op.ret["market_cap"] = At(op.secondary.body.qt, 45)
        /\ op.ret["pe_ratio"] = At(op.secondary.body.qt, 39)

C15_Witness ==
    /\ FetchedWithPrimaryDown
    /\ op.primary.kind = "exception"
    /\ op.ret["current_price"] = "q3"
    /\ op.ret["market_cap"] = "q45"
    /\ op.ret["change"] = Sentinel

StockQuoteFields ==
    {"name", "code", "current_price", "change", "change_percent", "open", "high",
     "low", "prev_close", "volume", "turnover", "market_cap", "pe_ratio", "pb_ratio",
     "dividend_yield", "52w_high", "52w_low", "turnover_rate", "amplitude",
     "total_shares", "float_shares", "updated_at"}

\* C16: whatever the two feeds answer, fetch_stock_data returns a quote in
\* which every StockQuote field is present, holding "--" when the feed that
\* supplies it did not deliver it.
C16_CompleteQuote ==
    op.name = "fetch_stock" => StockQuoteFields \subseteq DOMAIN op.ret

(***************************************************************************)
(* The relay of one upstream line, app.py:507-518 and 941-952.             *)
(* The text after "data: " is the terminator, a text that is no JSON, or a *)
(* JSON value.  A subscript or a membership test gives a value or raises.  *)
(***************************************************************************)
JList(items) == [t |-> "list", items |-> items]

DoneMark == [t |-> "done"]
BadJson == [t |-> "badjson"]

Value(v) == [r |-> "value", v |-> v]
Raise(exc) == [r |-> "raise", exc |-> exc]

\* x[key] for a string key
GetItemStr(x, key) ==
    CASE x.t = "obj" -> IF key \in DOMAIN x.f THEN Value(x.f[key]) ELSE Raise("KeyError")
      [] OTHER -> Raise("TypeError")

\* x[0]; the strings of the model have one character or none
GetItem0(x) ==
    CASE x.t = "list" -> IF Len(x.items) > 0 THEN Value(x.items[1]) ELSE Raise("IndexError")
      [] x.t = "str" -> IF x.s # "" THEN Value(x) ELSE Raise("IndexError")
      [] x.t = "obj" -> Raise("KeyError")
      [] OTHER -> Raise("TypeError")

\* key in x
Contains_(x, key) ==
    CASE x.t = "obj" -> Value(key \in DOMAIN x.f)
      [] x.t = "list" -> Value(\E i \in 1..Len(x.items) : x.items[i] = JStr(key))
      [] x.t = "str" -> Value(x.s = key)
      [] OTHER -> Raise("TypeError")

\* except (json.JSONDecodeError, KeyError, IndexError), app.py:517, 951
InnerCatches_(exc) == exc \in {"JSONDecodeError", "KeyError", "IndexError"}

PyExceptions ==
    {"JSONDecodeError", "KeyError", "IndexError", "TypeError", "TransportError"}

OuterCatches_listed(exc) == InnerCatches_(exc)

\* except Exception, app.py:519, 953
OuterCatches(exc) == exc \in PyExceptions

Skip == [r |-> "skip"]
Break == [r |-> "break"]
Yield(v) == [r |-> "yield", v |-> v]

\* app.py:513-516, 947-950: the body of the inner try for the text data_str
relay_chunk(data) ==
    IF data.t = "badjson" THEN Raise("JSONDecodeError")
    ELSE LET choices == GetItemStr(data, "choices")
         IN  IF choices.r = "raise" THEN choices
             ELSE LET first == GetItem0(choices.v)
                  IN  IF first.r = "raise" THEN first
                      ELSE LET delta == GetItemStr(first.v, "delta")
                           IN  IF delta.r = "raise" THEN delta
                               ELSE LET has == Contains_(delta.v, "content")
                                    IN  IF has.r = "raise" THEN has
                                        ELSE IF ~has.v THEN Skip
                                        ELSE LET content == GetItemStr(delta.v, "content")
                                             IN  IF content.r = "raise" THEN content
                                                 ELSE Yield(content.v)

\* A variant that reads on after the terminator.
relay_line_nobreak(line) ==
    IF ~line.prefix \/ line.data.t = "done" THEN Skip
    ELSE LET r == relay_chunk(line.data)
         IN  IF r.r = "raise" /\ InnerCatches_(r.exc) THEN Skip ELSE r

\* app.py:508-518, 942-952: one turn of the loop over the upstream lines.  A
\* line is [prefix, data]: whether it starts with "data: ", and what follows.
relay_line(line) ==
    IF ~line.prefix THEN Skip
    ELSE IF line.data.t = "done" THEN Break
    ELSE LET r == relay_chunk(line.data)
         IN  IF r.r = "raise" /\ InnerCatches_(r.exc) THEN Skip ELSE r

(***************************************************************************)
(* Fragments and events                                                    *)
(***************************************************************************)
\* A fragment of model text
LLMFrag(v) == [t |-> "llm", v |-> v]
\* The report of _generate_fallback_analysis
FallbackFrag == [t |-> "fallback"]
\* A diagnostic text
DiagFrag(why) == [t |-> "diag", why |-> why]

Endpoints == {"analysis", "summary", "chat"}

\* app.py:461-464 and 896-898
NoKeyFrags(endpoint) ==
    IF endpoint = "analysis" THEN <<FallbackFrag>> ELSE <<DiagFrag("nokey")>>

\* app.py:492-505 and 927-939
StatusFrags(endpoint) ==
    IF endpoint = "analysis" THEN <<DiagFrag("status"), FallbackFrag>>
    ELSE <<DiagFrag("status")>>

\* app.py:519-521 and 953-955
ExceptFrags(endpoint) ==
    IF endpoint = "analysis" THEN <<FallbackFrag>> ELSE <<DiagFrag("exception")>>

\* app.py:962: the event of one fragment
ContentEvent(chunk) == [ev |-> "content", content |-> chunk]
\* app.py:963
DoneEvent == [ev |-> "done"]

(***************************************************************************)
(* Upstream lines                                                          *)
(***************************************************************************)
Line(prefix, data) == [prefix |-> prefix, data |-> data]

Chunk(choice) == JObj([choices |-> JList(<<choice>>)])
Delta(d) == Chunk(JObj([delta |-> d]))
ContentLine(s) == Line(TRUE, Delta(JObj([content |-> JStr(s)])))

Lines ==
    {Line(FALSE, DoneMark),                         \* "data:[DONE]", ": ping", ""
     Line(TRUE, DoneMark),
     ContentLine("a"), ContentLine("b"),
     Line(TRUE, Delta(JObj([role |-> JStr("r")]))),  \* a delta without content
     Line(TRUE, BadJson),
     Line(TRUE, JNull),                              \* data: null
     Line(TRUE, JList(<<>>)),                        \* data: []
     Line(TRUE, JObj([id |-> JStr("x")])),           \* no choices
     Line(TRUE, JObj([choices |-> JNull])),
     Line(TRUE, JObj([choices |-> JList(<<>>)])),
     Line(TRUE, Chunk(JObj([index |-> JInt(0)]))),   \* no delta
     Line(TRUE, Delta(JNull)),
     Line(TRUE, Delta(JStr("x")))}

MaxLines == 2

Upstreams == UNION {[1..n -> Lines] : n \in 0..MaxLines}

(***************************************************************************)
(* The streaming endpoints: get_analysis (app.py:682-695), get_summary     *)
(* (app.py:979-1013), post_chat (app.py:1023-1066), with stream_ai_analysis*)
(* (app.py:407-521), _stream_llm (app.py:894-955) and _sse_wrap            *)
(* (app.py:958-973).                                                       *)
(***************************************************************************)
StreamFetches(endpoint) ==
    IF endpoint = "summary" THEN {StockKey, NewsKey}
    ELSE {StockKey, NewsKey, kline_key("day", 60)}

\* The record of a request that is over.  `raised` says that the stream was
\* cut without its done event.
StreamOp(r, raised) ==
    [name |-> "stream", endpoint |-> r.endpoint, status |-> r.status,
     upstream |-> r.upstream, read |-> r.read, requested |-> r.requested,
     out |-> r.out, failure |-> r.failure, raised |-> raised]

\* The generator runs up to its next `yield`: event_stream wraps the first of
\* frags into an event and is suspended while the server sends it
\* (app.py:961-962).  The rest of frags is yielded when the generator is
\* resumed, one fragment at a time, and after the last one the generator goes
\* on at `next`.
YieldFrags(r, frags, next) ==
    [r EXCEPT !.out = Append(@, ContentEvent(Head(frags))),
              !.pending = Tail(frags), !.pc = "yielded", !.next = next]

\* The generator is exhausted: event_stream leaves its loop, yields the done
\* event and is suspended while the server sends it, app.py:963.
Finish(p, r) ==
    /\ req' = [req EXCEPT ![p] = [r EXCEPT !.out = Append(@, DoneEvent), !.pc = "done"]]
    /\ UNCHANGED op

\* An exception exc is raised inside the try of the generator: the handler
\* of app.py:519-521, 953-955 yields its fragment when it catches exc;
\* otherwise the exception leaves the generator and event_stream, and the
\* response is cut.
Fail(p, r, failure, exc) ==
    IF OuterCatches(exc)
    THEN /\ req' = [req EXCEPT ![p] =
                      YieldFrags([r EXCEPT !.failure = failure],
                                 ExceptFrags(r.endpoint), "ended")]
         /\ UNCHANGED op
    ELSE /\ op' = StreamOp([r EXCEPT !.failure = failure], TRUE)
         /\ req' = [req EXCEPT ![p] = IdleReq]

\* The handler starts its fetchers.
StreamStart(p, endpoint) ==
    /\ req[p].kind = "idle"
    /\ req' = [req EXCEPT ![p] =
                 [kind |-> "stream", pc |-> "gather", endpoint |-> endpoint,
                  f |-> NewTasks(StreamFetches(endpoint)), status |-> "none",
                  upstream |-> <<>>, read |-> 0, requested |-> FALSE, out |-> <<>>,
                  pending |-> <<>>, next |-> "", failure |-> "none", exc |-> ""]]
    /\ op' = NoOp
    /\ UNCHANGED <<clockVars, _cache, ratingVars, epoch, setLog>>

\* The gather is over, the response starts: without a key the generator
\* yields its one fragment (app.py:461-464, 896-898), otherwise it sends the
\* request and waits for the answer.  The fetchers' tasks are finished and
\* gone; what they returned goes into the prompt (app.py:409-459, 985-1004,
\* 1032-1060), which no later step of the generator reads.
StreamJoin(p) ==
    /\ req[p].kind = "stream"
    /\ req[p].pc = "gather"
    /\ AllDone(req[p].f)
    /\ IF ~LLM_API_KEY
       THEN req' = [req EXCEPT ![p] =
                      YieldFrags([req[p] EXCEPT !.status = "nokey",
                                                !.f = EmptyDict],
                                 NoKeyFrags(req[p].endpoint), "ended")]
       ELSE req' = [req EXCEPT ![p].pc = "open", ![p].requested = TRUE,
                               ![p].f = EmptyDict]
    /\ UNCHANGED <<clockVars, _cache, ratingVars, epoch, op, setLog>>

\* The request fails before a status is read.
StreamConnectError(p) ==
    /\ req[p].kind = "stream"
    /\ req[p].pc = "open"
    /\ Fail(p, [req[p] EXCEPT !.status = "exception"], "connect", "TransportError")
    /\ UNCHANGED <<clockVars, _cache, ratingVars, epoch, setLog>>

\* A status other than 200 is read: the generator waits for the body of the
\* answer, `await response.aread()`, app.py:493, 928.
StreamStatus(p) ==
    /\ req[p].kind = "stream"
    /\ req[p].pc = "open"
    /\ req' = [req EXCEPT ![p].status = "status", ![p].pc = "body"]
    /\ UNCHANGED <<clockVars, _cache, ratingVars, epoch, op, setLog>>

\* The body of the error answer is read, or reading it raises.  After the
\* body the diagnostic is yielded (and then, for the analysis, the report),
\* and the generator returns through the two `async with`, app.py:494-505,
\* 929-939.
StreamBody(p, raises) ==
    /\ req[p].kind = "stream"
    /\ req[p].pc = "body"
    /\ IF raises
       THEN Fail(p, req[p], "body", "TransportError")
       ELSE /\ req' = [req EXCEPT ![p] =
                         YieldFrags(req[p], StatusFrags(req[p].endpoint), "closing")]
            /\ UNCHANGED op
    /\ UNCHANGED <<clockVars, _cache, ratingVars, epoch, setLog>>

\* Status 200; the lines the upstream is going to send are `upstream`.
StreamOk(p, upstream) ==
    /\ req[p].kind = "stream"
    /\ req[p].pc = "open"
    /\ req' = [req EXCEPT ![p].status = "ok", ![p].pc = "lines",
                          ![p].upstream = upstream]
    /\ UNCHANGED <<clockVars, _cache, ratingVars, epoch, op, setLog>>

\* The next line arrives and is relayed.  An exception that the inner handler
\* does not catch leaves the two `async with` blocks (app.py:482-483,
\* 918-919), which close the connection, before a handler of the generator
\* can see it.
StreamLine(p) ==
    /\ req[p].kind = "stream"
    /\ req[p].pc = "lines"
    /\ req[p].read < Len(req[p].upstream)
    /\ LET r == [req[p] EXCEPT !.read = @ + 1]
           res == relay_line(r.upstream[r.read])
       IN  CASE res.r = "skip" -> req' = [req EXCEPT ![p] = r] /\ UNCHANGED op
             [] res.r = "yield" ->
                    /\ req' = [req EXCEPT ![p] = YieldFrags(r, <<LLMFrag(res.v)>>, "lines")]
                    /\ UNCHANGED op
             [] res.r = "break" ->
                    req' = [req EXCEPT ![p] = [r EXCEPT !.pc = "closing"]] /\ UNCHANGED op
             [] res.r = "raise" ->
                    /\ req' = [req EXCEPT ![p] =
                                 [r EXCEPT !.pc = "unwinding", !.failure = "parse",
                                           !.exc = res.exc]]
                    /\ UNCHANGED op
    /\ UNCHANGED <<clockVars, _cache, ratingVars, epoch, setLog>>

\* The connection is closed and the exception of the line reaches the try of
\* the generator.
StreamUnwound(p) ==
    /\ req[p].kind = "stream"
    /\ req[p].pc = "unwinding"
    /\ Fail(p, req[p], req[p].failure, req[p].exc)
    /\ UNCHANGED <<clockVars, _cache, ratingVars, epoch, setLog>>

\* The upstream ends after its last line.
StreamEnd(p) ==
    /\ req[p].kind = "stream"
    /\ req[p].pc = "lines"
    /\ req[p].read = Len(req[p].upstream)
    /\ req' = [req EXCEPT ![p].pc = "closing"]
    /\ UNCHANGED <<clockVars, _cache, ratingVars, epoch, op, setLog>>

\* Reading the next line fails (connection lost, timeout).
StreamLineError(p) ==
    /\ req[p].kind = "stream"
    /\ req[p].pc = "lines"
    /\ Fail(p, req[p], "line", "TransportError")
    /\ UNCHANGED <<clockVars, _cache, ratingVars, epoch, setLog>>

\* The two `async with` blocks are left: the connection closes and the
\* generator is exhausted, or closing raises.
StreamClose(p, raises) ==
    /\ req[p].kind = "stream"
    /\ req[p].pc = "closing"
    /\ IF raises
       THEN Fail(p, req[p], "close", "TransportError")
       ELSE Finish(p, req[p])
    /\ UNCHANGED <<clockVars, _cache, ratingVars, epoch, setLog>>

\* A variant in which a generator is resumed only while no other request is
\* running.
StreamResume_alone(p) ==
    /\ req[p].kind = "stream"
    /\ req[p].pc = "yielded"
    /\ \A q \in DOMAIN req \ {p} : req[q].kind = "idle"
    /\ IF req[p].pending # <<>>
       THEN req' = [req EXCEPT ![p] = YieldFrags(req[p], req[p].pending, req[p].next)]
            /\ UNCHANGED op
       ELSE IF req[p].next = "ended"
       THEN Finish(p, req[p])
       ELSE req' = [req EXCEPT ![p].pc = req[p].next] /\ UNCHANGED op
    /\ UNCHANGED <<clockVars, _cache, ratingVars, epoch, setLog>>

\* The event was sent and the generator is resumed at its `yield`: it yields
\* its next fragment, or goes on reading lines, or returns through the two
\* `async with`, or (after the fragment of a handler or of the branch without
\* key) is exhausted.
StreamResume(p) ==
    /\ req[p].kind = "stream"
    /\ req[p].pc = "yielded"
    /\ IF req[p].pending # <<>>
       THEN req' = [req EXCEPT ![p] = YieldFrags(req[p], req[p].pending, req[p].next)]
            /\ UNCHANGED op
       ELSE IF req[p].next = "ended"
       THEN Finish(p, req[p])
       ELSE req' = [req EXCEPT ![p].pc = req[p].next] /\ UNCHANGED op
    /\ UNCHANGED <<clockVars, _cache, ratingVars, epoch, setLog>>

\* The done event was sent: event_stream is exhausted and the response is
\* complete.
StreamReturn(p) ==
    /\ req[p].kind = "stream"
    /\ req[p].pc = "done"
    /\ op' = StreamOp(req[p], FALSE)
    /\ req' = [req EXCEPT ![p] = IdleReq]
    /\ UNCHANGED <<clockVars, _cache, ratingVars, epoch, setLog>>

\* The client goes away while the response waits for the upstream or for an
\* event to be sent: the server cancels the response, CancelledError is no
\* Exception for the handlers of app.py:519, 953, and nothing more is sent.
StreamCancel(p) ==
    /\ req[p].kind = "stream"
    /\ req[p].pc \in {"open", "body", "lines", "unwinding", "closing", "yielded"}
    /\ op' = StreamOp([req[p] EXCEPT !.failure = "cancelled"], TRUE)
    /\ req' = [req EXCEPT ![p] = IdleReq]
    /\ UNCHANGED <<clockVars, _cache, ratingVars, epoch, setLog>>

InitStream == InitState({"p1"}, BOOLEAN, {1})

NextStream ==
    \/ \E p \in DOMAIN req, endpoint \in Endpoints : StreamStart(p, endpoint)
    \/ \E p \in DOMAIN req, k \in CacheKeys \cup {kline_key("day", 60)} : FetchStart(p, k)
    \/ \E p \in DOMAIN req : FetchIssue(p, NewsKey)
    \/ \E p \in DOMAIN req, k \in CacheKeys \cup {kline_key("day", 60)} :
          FetchReturn(p, k, FALSE)
    \/ \E p \in DOMAIN req : StreamJoin(p)
    \/ \E p \in DOMAIN req : StreamConnectError(p)
    \/ \E p \in DOMAIN req : StreamStatus(p)
    \/ \E p \in DOMAIN req, upstream \in Upstreams : StreamOk(p, upstream)
    \/ \E p \in DOMAIN req : StreamLine(p)
    \/ \E p \in DOMAIN req : StreamEnd(p)
    \/ \E p \in DOMAIN req : StreamLineError(p)
    \/ \E p \in DOMAIN req, raises \in BOOLEAN : StreamClose(p, raises)
    \/ \E p \in DOMAIN req, raises \in BOOLEAN : StreamBody(p, raises)
    \/ \E p \in DOMAIN req : StreamResume(p)
    \/ \E p \in DOMAIN req : StreamReturn(p)
    \/ \E p \in DOMAIN req : StreamCancel(p)
    \/ \E p \in DOMAIN req : StreamUnwound(p)

SpecStream == InitStream /\ [][NextStream]_vars

(***************************************************************************)
(* Claims about the event streams                                          *)
(***************************************************************************)
OnlyContent(out) == \A i \in 1..Len(out) : out[i].ev = "content"

\* Content events followed by exactly one done event.
ContentThenDone(out) ==
    /\ Len(out) >= 1
    /\ out[Len(out)].ev = "done"
    /\ OnlyContent(SubSeq(out, 1, Len(out) - 1))

\* The last request was a stream that its client read to the end.
Served == op.name = "stream" /\ op.failure # "cancelled"

\* C17: every stream served by the analysis, summary and chat endpoints to a
\* client that stays,
\* whatever the relay met (answer relayed, no key, status other than 200,
\* transport exception at any point), consists of content events followed by
\* exactly one done event, which is the last event; while the stream is
\* being served, the done event is emitted only as the last step and nothing
\* is emitted before it but content events.
C17_SSEFraming ==
    /\ Served => ContentThenDone(op.out)
    /\ \A p \in DOMAIN req : req[p].kind = "stream" =>
          IF req[p].pc = "done" THEN ContentThenDone(req[p].out)
          ELSE OnlyContent(req[p].out)

C17_Witness ==
    /\ op.name = "stream"
    /\ op.endpoint = "chat"
    /\ op.failure = "line"
    /\ op.out = <<ContentEvent(LLMFrag(JStr("a"))), ContentEvent(DiagFrag("exception")),
                  DoneEvent>>

\* A data line whose JSON is an object with a non-empty list `choices`, whose
\* first member is an object with an object `delta` that has `content`.
IsContentDelta(line) ==
    /\ line.prefix
    /\ line.data.t = "obj"
    /\ "choices" \in DOMAIN line.data.f
    /\ line.data.f["choices"].t = "list"
    /\ Len(line.data.f["choices"].items) > 0
    /\ LET first == line.data.f["choices"].items[1]
       IN  /\ first.t = "obj"
           /\ "delta" \in DOMAIN first.f
           /\ first.f["delta"].t = "obj"
           /\ "content" \in DOMAIN first.f["delta"].f

IsTerminator(line) == line.prefix /\ line.data.t = "done"

\* The fragments of the content deltas that precede the first terminator.
RECURSIVE ContentBeforeDone(_)
ContentBeforeDone(lines) ==
    IF lines = <<>> \/ IsTerminator(Head(lines)) THEN <<>>
    ELSE IF IsContentDelta(Head(lines))
         THEN <<LLMFrag(Head(lines).data.f["choices"].items[1].f["delta"].f["content"])>>
              \o ContentBeforeDone(Tail(lines))
         ELSE ContentBeforeDone(Tail(lines))

\* The fragments of the content events of a stream.
Frags(out) ==
    LET contents == SelectSeq(out, LAMBDA e : e.ev = "content")
    IN  [i \in 1..Len(contents) |-> contents[i].content]

\* C18: on a 200 upstream stream without transport failure, every data line
\* that is no JSON or is structurally unexpected is skipped and does not end
\* the stream: the fragments of the stream are exactly the contents of the
\* well-formed content deltas that precede the terminator, with no
\* diagnostic and no fallback report among them.
C18_BadLinesSkipped ==
    (Served /\ op.status = "ok" /\ op.failure \notin {"line", "close"}) =>
        Frags(op.out) = ContentBeforeDone(op.upstream)

\* A data line that is the terminator or a JSON object whose choices[0] is an
\* object with an object `delta`.
IsWellFormed(line) ==
    \/ IsTerminator(line)
    \/ /\ line.prefix
       /\ line.data.t = "obj"
       /\ "choices" \in DOMAIN line.data.f
       /\ line.data.f["choices"].t = "list"
       /\ Len(line.data.f["choices"].items) > 0
       /\ LET first == line.data.f["choices"].items[1]
          IN  /\ first.t = "obj"
              /\ "delta" \in DOMAIN first.f
              /\ first.f["delta"].t = "obj"

RelayedWellFormed ==
    /\ op.name = "stream"
    /\ op.status = "ok"
    /\ op.failure = "none"
    /\ \A i \in 1..Len(op.upstream) : op.upstream[i].prefix => IsWellFormed(op.upstream[i])

\* C21: when the upstream answers 200, every data line is well-formed and
\* nothing fails, the fragments of the stream are, in order, the contents of
\* the data lines that precede the first terminator: lines without the
\* prefix and deltas without content give no fragment, and no line after the
\* terminator is read.
C21_FragmentOrder ==
    RelayedWellFormed =>
        /\ Frags(op.out) = ContentBeforeDone(op.upstream)
        /\ \A i \in 1..Len(op.upstream) : IsTerminator(op.upstream[i]) => op.read <= i

C21_Witness ==
    /\ RelayedWellFormed
    /\ op.upstream = <<ContentLine("b"), ContentLine("a")>>
    /\ Frags(op.out) = <<LLMFrag(JStr("b")), LLMFrag(JStr("a"))>>

CountOf(frags, frag) == Cardinality({i \in 1..Len(frags) : frags[i] = frag})

HasLLMFrag(frags) == \E i \in 1..Len(frags) : frags[i].t = "llm"

TransportFailed == op.failure \in {"connect", "body", "line", "close"}

\* C22: a summary or chat stream has exactly one fragment, the notice that no
\* key is configured, and no LLM request, when no key is configured; exactly
\* one fragment, a diagnostic, when the status is not 200; exactly
\* one exception diagnostic, as its last fragment, when the transport raises;
\* and never the fallback report.
C22_GenericFailures ==
    (Served /\ op.endpoint \in {"summary", "chat"}) =>
        LET frags == Frags(op.out)
        IN  /\ op.status = "nokey" => (frags = <<DiagFrag("nokey")>> /\ ~op.requested)
            /\ op.status = "status" => (Len(frags) = 1 /\ frags[1].t = "diag")
            /\ TransportFailed =>
                  /\ CountOf(frags, DiagFrag("exception")) = 1
                  /\ frags[Len(frags)] = DiagFrag("exception")
            /\ CountOf(frags, FallbackFrag) = 0

\* C23: an analysis stream has exactly one fragment, the fallback report, and
\* no LLM request, when no key is configured; when the status is not 200 it
\* has exactly two fragments, the status diagnostic and then the fallback
\* report, and no fragment of model text.
C23_AnalysisDegradation ==
    (Served /\ op.endpoint = "analysis") =>
        LET frags == Frags(op.out)
        IN  /\ op.status = "nokey" => (frags = <<FallbackFrag>> /\ ~op.requested)
            /\ op.status = "status" => frags = <<DiagFrag("status"), FallbackFrag>>

\* C24: in every analysis stream, wherever an exception occurs, the fallback
\* report is emitted at most once, is the last fragment when emitted, and is
\* never in a stream that has a fragment of model text.
C24_FallbackOnce ==
    (Served /\ op.endpoint = "analysis") =>
        LET frags == Frags(op.out)
        IN  /\ CountOf(frags, FallbackFrag) <= 1
            /\ CountOf(frags, FallbackFrag) = 1 => frags[Len(frags)] = FallbackFrag
            /\ HasLLMFrag(frags) => CountOf(frags, FallbackFrag) = 0

(***************************************************************************)
(* Claims about the memo hit of get_rating                                 *)
(***************************************************************************)
\* A get_rating call returns on the memo path in this step.
MemoHitStep == op' # op /\ op'.name = "get_rating" /\ op'.path = "hit"

\* A get_rating call starts its fetchers in this step.
GatherStep == \E p \in DOMAIN req : req[p].kind = "idle" /\ req'[p].kind = "get_rating"

\* C25: when the memo holds an entry for today's date, a get_rating call
\* returns that entry unchanged, starts no quote, news or K-line fetcher and
\* sends no LLM request, and leaves the TTL cache and the memo as they were.
C25_MemoHitFrame ==
    [][/\ MemoHitStep =>
            /\ DateStr(day) \in DOMAIN _rating_cache
            /\ op'.ret = _rating_cache[DateStr(day)]
            /\ ~op'.usedLLM
            /\ req' = req
            /\ _cache' = _cache
            /\ _rating_cache' = _rating_cache
       /\ DateStr(day) \in DOMAIN _rating_cache => ~GatherStep]_vars

C25_Witness ==
    /\ op.name = "get_rating"
    /\ op.path = "hit"
    /\ DOMAIN _cache # {}
    /\ op.ret = _rating_cache[op.date]

(***************************************************************************)
(* get_rating with answers that hold fence markers                         *)
(***************************************************************************)
RatingX == JsonTok(RatingObj(Some(JStr("buy")), Some(JInt(70)), Some(JStr("up")),
                             Some(FullFactors), None))
RatingY == JsonTok(RatingObj(Some(JStr("avoid")), Some(JInt(10)), Some(JStr("down")),
                             Some(FullFactors), None))

FenceAnswers ==
    {LLMOk(text, None) : text \in
        {<<Fence, JsonTag, Ws, RatingX, Ws, Fence>>,                      \* one block
         <<Prose, Fence, RatingX, Fence, Prose>>,                         \* prose around
         <<Fence, JsonTag, Ws, RatingX, Ws, Fence, Prose, Fence, Ws, RatingY, Fence>>,
         <<Fence, RatingX, Fence, Fence, RatingY, Fence>>,                \* two blocks
         <<Fence, RatingX, Fence, Prose, Fence>>,                         \* a stray fence
         <<Fence, Fence, RatingX, Fence>>,                                \* an empty block
         <<Fence, JsonTag, Ws, RatingX>>,                                 \* never closed
         <<RatingX>>}}

InitFence == InitState({"p1"}, {TRUE}, 1..MaxDays)

NextFence ==
    \/ \E p \in DOMAIN req : RatingStart(p)
    \/ \E p \in DOMAIN req, k \in RatingFetches : FetchStart(p, k)
    \/ \E p \in DOMAIN req : FetchIssue(p, NewsKey)
    \/ \E p \in DOMAIN req, k \in RatingFetches : FetchReturn(p, k, FALSE)
    \/ \E p \in DOMAIN req : RatingJoin(p)
    \/ \E p \in DOMAIN req, resp \in FenceAnswers : RatingLLMReturn(p, resp)

SpecFence == InitFence /\ [][NextFence]_vars

\* The text between the first fence (past the json word and whitespace) and
\* the last fence, stripped; the whole text when there is no such pair.
FirstToLastFence(text) ==
    LET first == SetMin(FenceAt(text))
        b == GroupStart(text, first)
        last == SetMax(FenceAt(text))
    IN  Strip(IF FenceAt(text) = {} \/ last < b THEN text ELSE SubSeq(text, b, last - 1))

\* C26: when the text of the answer holds fence markers, the text parsed as
\* JSON is the text between the first fence (past an optional json word) and
\* the last fence of the answer: the call returns the rating that text parses
\* to, or the failure fallback when it does not parse.
C26_FirstLastFence ==
    (/\ op.name = "get_rating"
     /\ op.path \in {"ok", "fail"}
     /\ result_text(op.resp) # None
     /\ FenceAt(result_text(op.resp)[1]) # {}) =>
        LET parsed == json_loads(FirstToLastFence(result_text(op.resp)[1]))
            r == IF parsed = None THEN None ELSE ValidateRating(parsed[1], op.date)
        IN  IF r = None THEN op.path = "fail" ELSE op.path = "ok" /\ op.ret = r[1]

\* C27: every item of a fetch_news result has a summary of at most 120
\* characters, and its tag is stock exactly when its title followed by its
\* summary, as returned, holds a keyword of the fixed set, else general.
C27_TagFromItem ==
    op.name = "fetch_news" =>
        \A i \in 1..Len(op.ret) :
            /\ Len(op.ret[i].summary) <= SummaryMax
            /\ op.ret[i].tag = _classify_news(op.ret[i].title, op.ret[i].summary)

(***************************************************************************)
(* Two clients calling the three fetchers concurrently                     *)
(***************************************************************************)
ConcPrimary == {PrimaryResp("exception", NoText), PrimaryResp("ok", PrimaryText(TRUE, 19, "f0"))}

ConcSecondary == {SecondaryResp("status", "none", <<>>), SecondaryResp("ok", "qt", Qt(73))}

ConcKline ==
    {KResp("exception", NotObj),
     KResp("ok", KBody(OneSeries("day", <<GoodRow(1), GoodRow(2)>>)))}

ConcSina == {Upstream("exception", <<>>), SinaSkipped}

ConcRoll == {Upstream("status", <<>>), RollPartial}

ConcGoogle == {Upstream("exception", <<>>)}

InitFetchConc == InitState({"p1", "p2"}, {FALSE}, {1})

NextFetchConc ==
    \/ \E p \in DOMAIN req : QuoteStart(p)
    \/ \E p \in DOMAIN req, resp \in ConcPrimary : QuotePrimary(p, resp)
    \/ \E p \in DOMAIN req, resp \in ConcSecondary : QuoteSecondary(p, resp)
    \/ \E p \in DOMAIN req : KlineStart(p, "day", 10)
    \/ \E p \in DOMAIN req, resp \in ConcKline : KlineReturn(p, resp)
    \/ \E p \in DOMAIN req : NewsStart(p)
    \/ \E p \in DOMAIN req, r \in ConcSina : NewsSina(p, r, r, r, r)
    \/ \E p \in DOMAIN req, r \in ConcRoll : NewsRoll(p, r)
    \/ \E p \in DOMAIN req, r \in ConcGoogle : NewsGoogle1(p, r)
    \/ \E p \in DOMAIN req, r \in ConcGoogle : NewsGoogle2(p, r)

SpecFetchConc == InitFetchConc /\ [][NextFetchConc]_vars

\* Two quotes are equal in every field but the time of the update.
SameButTime(a, b) ==
    /\ DOMAIN a = DOMAIN b
    /\ \A k \in DOMAIN a \ {"updated_at"} : a[k] = b[k]

\* The quote built from the two answers of one call.
OwnQuote(primary, secondary) ==
    merge_secondary(merge_primary(InitialQuote(0), primary, 0), secondary)

\* The key a completed fetcher call stored under.
OpKey ==
    CASE op.name = "fetch_stock" -> StockKey
      [] op.name = "fetch_news" -> NewsKey
      [] op.name = "fetch_kline" -> op.key

FetcherOps == {"fetch_stock", "fetch_news", "fetch_kline"}

\* The value of the call that set last is built from that call's own answers.
OwnResult ==
    CASE op.name = "fetch_stock" -> SameButTime(op.ret, OwnQuote(op.primary, op.secondary))
      [] op.name = "fetch_news" -> op.ret = news_result(SourceOrder(op.srcs))
      [] op.name = "fetch_kline" -> op.ret = kline_list(op.request[1].period, op.resp)

\* A fetcher call returns from the cache in this step.
FetcherHitStep == op' # op /\ op'.name \in FetcherOps /\ op'.path = "hit"

\* C29: with two clients calling the fetchers in any interleaving, a call
\* that finds no fresh entry sends its own requests even when another call
\* for the same key is in flight (a call returns without requests only from a
\* fresh cache entry), and each cache entry is the whole (timestamp, value)
\* pair of the call that set last, its value built from that call's answers
\* alone.
C29_NoSingleFlightNoTorn ==
    /\ [](\A k \in DOMAIN _cache : _cache[k] = setLog[k])
    /\ []((op.name \in FetcherOps /\ op.path = "miss") =>
            (_cache[OpKey].data = op.ret /\ OwnResult))
    /\ [][FetcherHitStep =>
            LET key == CASE op'.name = "fetch_stock" -> StockKey
                         [] op'.name = "fetch_news" -> NewsKey
                         [] op'.name = "fetch_kline" -> op'.key
            IN  _get_cache(_cache, key, now) = Some(op'.ret)]_vars

\* A call stored its quote while another call for the same key, which got
\* another answer from the primary feed, is still in flight.
C29_Witness ==
    /\ op.name = "fetch_stock"
    /\ op.path = "miss"
    /\ \E p \in DOMAIN req :
          /\ req[p].kind = "fetch_stock"
          /\ req[p].pc = "secondary"
          /\ req[p].primary # op.primary

(***************************************************************************)
(* Two clients that ask for streams and refreshes concurrently.  Every     *)
(* upstream call carries a timeout (app.py:102, 134, 177, 255, 317, 353,   *)
(* 482, 919), so a fetcher that waits gets its answer or its exception, an *)
(* opened LLM call gets a status or raises, and a line that is waited for  *)
(* arrives, or the stream ends, or the read raises; the event loop runs    *)
(* every task that is ready.  The clients stay connected and read every    *)
(* event, so a generator suspended at a `yield` is resumed.  A client is   *)
(* free to make no further request.                                        *)
(***************************************************************************)
LiveUpstreams == {<<ContentLine("a")>>, <<Line(TRUE, JNull)>>}

\* The first client asks for streams of all three kinds, again and again if
\* it likes; the second one asks for summary streams and for refreshes.
LiveRequests ==
    {<<"p1", "analysis">>, <<"p1", "summary">>, <<"p1", "chat">>,
     <<"p2", "summary">>}

\* A step of the request task p once it has been started.
Continue(p) ==
    \/ \E k \in CacheKeys \cup {kline_key("day", 60)} : FetchStart(p, k)
    \/ FetchIssue(p, NewsKey)
    \/ \E k \in CacheKeys \cup {kline_key("day", 60)} : FetchReturn(p, k, FALSE)
    \/ RefreshJoin(p)
    \/ StreamJoin(p)
    \/ StreamConnectError(p)
    \/ StreamStatus(p)
    \/ \E raises \in BOOLEAN : StreamBody(p, raises)
    \/ \E upstream \in LiveUpstreams : StreamOk(p, upstream)
    \/ StreamLine(p)
    \/ StreamUnwound(p)
    \/ StreamEnd(p)
    \/ StreamLineError(p)
    \/ \E raises \in BOOLEAN : StreamClose(p, raises)
    \/ StreamResume(p)
    \/ StreamReturn(p)

InitStreamLive == InitState({"p1", "p2"}, BOOLEAN, {1})

NextStreamLive ==
    \/ \E r \in LiveRequests : StreamStart(r[1], r[2])
    \/ RefreshStart("p2")
    \/ \E p \in DOMAIN req : Continue(p)

SpecStreamLive ==
    /\ InitStreamLive
    /\ [][NextStreamLive]_vars
    /\ \A p \in {"p1", "p2"} : WF_vars(Continue(p))

\* The stream that ended last was closed by its done event.
EndedWithDone ==
    /\ op.name = "stream"
    /\ ~op.raised
    /\ op.out[Len(op.out)].ev = "done"

\* C28: with every ready task scheduled and every upstream call answering,
\* failing or timing out, each stream that a client asked for emits its done
\* event and ends, whatever the other client does meanwhile (a refresh,
\* another stream that started earlier or later).
C28_StreamTermination ==
    \A p \in {"p1", "p2"} :
        (req[p].kind = "stream") ~> (req[p].kind = "idle" /\ EndedWithDone)

\* An analysis stream whose upstream call was answered ended with its done
\* event while the other client's refresh was still running.
C28_Witness ==
    /\ EndedWithDone
    /\ op.endpoint = "analysis"
    /\ op.status = "ok"
    /\ \E q \in DOMAIN req : req[q].kind = "refresh_data"

\* C1: a get returns absent for a key not set since the last clear; otherwise
\* it returns the value of the last set when that set is less than CACHE_TTL
\* seconds old, and absent when it is CACHE_TTL seconds old or older.
C1_TTLCache ==
    op.name = "get" =>
        op.ret = IF op.key \in DOMAIN setLog
                    /\ now - setLog[op.key].ts < CACHE_TTL
                 THEN Some(setLog[op.key].data)
                 ELSE None

\* A get at an age of exactly CACHE_TTL finds the entry still stored and
\* returns absent (lazy expiry).
C1_Witness ==
    /\ op.name = "get"
    /\ op.key \in DOMAIN _cache
    /\ now - _cache[op.key].ts = CACHE_TTL
    /\ op.ret = None

=============================================================================
